---- MODULE Spec2Model ----
(***************************************************************************)
(* Scattering-matrix post-processing of the BEM ice-crystal notebooks.     *)
(*                                                                         *)
(* The two notebooks (dense assembly, and GMRES on the alternative          *)
(* formulation) share the grid, far-field, amplitude and phase cells line   *)
(* for line; the model follows the dense-assembly notebook.                 *)
(*                                                                         *)
(* The notebooks are executed cell by cell, top to bottom.  The state is   *)
(* the set of module-level names the cells assign (kExt, theta, points,    *)
(* ffp_z, ffp_y, A11..A22, S11..S44, info, numAngles, s1, s2, P11Mie),     *)
(* the lines drawn on the two axes (ax1, ax2), the lines printed (printed), *)
(* the exception that stopped the run (error), the notebook that is run    *)
(* (notebook), pc, the next cell to execute, and runs, the number of       *)
(* executions of the amplitude cell so far.  Names a cell has not assigned *)
(* yet hold << >>.  A cell that raises leaves pc where it is and sets      *)
(* error; no cell runs after that.                                         *)
(*                                                                         *)
(* Number representation.  The notebooks compute in double precision; the  *)
(* model computes in exact integer arithmetic:                             *)
(*   - a complex number is a record [re, im] of integers;                  *)
(*   - an angle is a fraction n/d of a full turn (2*pi), kept as [n, d];   *)
(*   - np.sin / np.cos return fixed-point values in units of 1/TrigDen;    *)
(*   - amplitude entries are kept in units of 1/TrigDen;                   *)
(*   - phase entries are kept in units of 1/(2*TrigDen^2), so that the     *)
(*     factor 0.5 of the diagonal-block entries is exact.                  *)
(***************************************************************************)
EXTENDS Integers, Sequences, FiniteSets, TLC

VARIABLES pc, runs, kExt, theta, points, ffp_z, ffp_y,
          notebook, error, printed, info,
          numAngles, s1, s2, P11Mie, ax1, ax2,
          A11, A12, A21, A22,
          S11, S12, S13, S14, S21, S22, S23, S24,
          S31, S32, S33, S34, S41, S42, S43, S44,
          lhsOp, rhs_z, rhs_y, lambda_data_z, lambda_data_y,
          total_field_dirichlet_z, total_field_neumann_z,
          total_field_dirichlet_y, total_field_neumann_y, evaluated

amp == <<A11, A12, A21, A22>>

phase == <<S11, S12, S13, S14, S21, S22, S23, S24,
           S31, S32, S33, S34, S41, S42, S43, S44>>

\* The names of the solve cells and the printed lines.
solve == <<info, printed>>

\* The names of the Mie cell and the lines of the plot cell.
mie == <<numAngles, s1, s2, P11Mie>>

plot == <<ax1, ax2>>

\* The linear system of the assembly cell.
bie == <<lhsOp, rhs_z, rhs_y>>

\* The solutions of the two solves.
lambdas == <<lambda_data_z, lambda_data_y>>

\* The boundary data of the total field.
traces == <<total_field_dirichlet_z, total_field_neumann_z,
            total_field_dirichlet_y, total_field_neumann_y>>

\* The names of the cells above the grid cell, and evaluated: for each far
\* field, the boundary data that were handed to evaluate() to compute it.
boundary == <<bie, lambdas, traces, evaluated>>

vars == <<pc, runs, kExt, theta, points, ffp_z, ffp_y, amp, phase,
          notebook, error, solve, mie, plot, boundary>>

(***************************************************************************)
(* Bounds of the model.                                                    *)
(***************************************************************************)
\* Largest number of far-field directions explored (the notebooks use 3601).
MaxPoints == 5

\* Fixed-point resolution of the trigonometric functions.
TrigDen == 100

\* Largest |component| of the far-field values drawn in the box specification.
FieldBound == 1

\* Largest number of executions of the amplitude cell in one session.
MaxRuns == 2

(***************************************************************************)
(* Program constants.                                                      *)
(***************************************************************************)
\* kExt = 5.
KExtValue == 5

\* numAngles = 901 and the slice bound 1801 of the plot cell, for a grid
\* of GridPoints directions in place of 3601: 3601 = 4 * 900 + 1,
\* 1801 = 2 * 900 + 1 and 901 = 900 + 1 become 4 * 1 + 1, 2 * 1 + 1, 1 + 1.
GridPoints == 5

ThetaSlice == 3

NumAnglesValue == 2

\* The values gmres returns as info: 0, converged; 1, not converged.
GmresInfo == {0, 1}

Max4(a, b, c, d) ==
    CHOOSE m \in {a, b, c, d} : \A x \in {a, b, c, d} : x <= m

(***************************************************************************)
(* Complex arithmetic (Python complex / numpy elementwise operations).     *)
(***************************************************************************)
Cx(a, b) == [re |-> a, im |-> b]

\* A non-finite value (nan, inf or -inf in a component of a complex number,
\* or a non-finite real).  An IEEE operation on a non-finite operand gives a
\* non-finite result in each of the expressions of the notebooks, and raises
\* nothing.
NaN == [nan |-> TRUE]

\* The complex number u is non-finite.
IsNaN(u) == "nan" \in DOMAIN u

CAdd(u, v) ==
    IF IsNaN(u) \/ IsNaN(v) THEN NaN ELSE Cx(u.re + v.re, u.im + v.im)

CSub(u, v) ==
    IF IsNaN(u) \/ IsNaN(v) THEN NaN ELSE Cx(u.re - v.re, u.im - v.im)

CMul(u, v) ==
    IF IsNaN(u) \/ IsNaN(v) THEN NaN
    ELSE Cx(u.re * v.re - u.im * v.im, u.re * v.im + u.im * v.re)

\* real * complex, for a finite real r
RMul(r, v) == IF IsNaN(v) THEN NaN ELSE Cx(r * v.re, r * v.im)

\* np.conjugate
Conjugate(u) == IF IsNaN(u) THEN NaN ELSE Cx(u.re, 0 - u.im)

\* np.real
Real(u) == u.re

\* np.imag
Imag(u) == u.im

\* abs(u)**2
Abs2(u) == IF IsNaN(u) THEN NaN ELSE u.re * u.re + u.im * u.im

\* One of the four amplitude entries of a direction is non-finite: every
\* phase formula reads all four, so its value is non-finite as well.
NonFinite4(u11, u12, u21, u22) ==
    IsNaN(u11) \/ IsNaN(u12) \/ IsNaN(u21) \/ IsNaN(u22)

\* Mutant of MinusJTimes: +1j * kExt, the opposite sign convention.
PlusJTimes(k) == Cx(0, k)

\* -1j * kExt
MinusJTimes(k) == Cx(0, 0 - k)

(***************************************************************************)
(* Angles and trigonometry.                                                *)
(***************************************************************************)
\* x / y rounded to the nearest integer, for x >= 0 and y > 0.
RoundDiv(x, y) == (2 * x + y) \div (2 * y)

\* sin(pi * p / q) for 0 <= p <= q, in units of 1/TrigDen (Bhaskara's rational
\* approximation, exact at 0, 1/6, 1/2, 5/6 and 1 half-turns).
SinHalfTurn(p, q) ==
    RoundDiv(TrigDen * 16 * p * (q - p), 5 * q * q - 4 * p * (q - p))

\* np.sin of the angle a = a.n / a.d turns.
Sin(a) ==
    LET m == (2 * a.n) % (2 * a.d)
    IN  IF m <= a.d THEN SinHalfTurn(m, a.d)
                    ELSE 0 - SinHalfTurn(m - a.d, a.d)

\* np.cos of the angle a: the sine a quarter turn later.
Cos(a) == Sin([n |-> 4 * a.n + a.d, d |-> 4 * a.d])

\* Mutant of Linspace2Pi: np.linspace(0, 2 * np.pi, n, endpoint=False).
LinspaceEndpointExcluded(n) ==
    [i \in 1..n |-> [n |-> i - 1, d |-> n]]

\* np.linspace(0, 2 * np.pi, n): n angles from 0 to 2*pi, both ends included.
Linspace2Pi(n) ==
    [i \in 1..n |-> [n |-> i - 1, d |-> IF n = 1 THEN 1 ELSE n - 1]]

\* Mutant of Points: the sine in row 0 and the cosine in row 1.
PointsSinCos(th) ==
    [r \in 0..2 |->
        [i \in DOMAIN th |->
            CASE r = 0 -> Sin(th[i])
              [] r = 1 -> Cos(th[i])
              [] r = 2 -> 0]]

\* np.vstack([np.cos(theta), np.sin(theta), 0. * theta]): a 3 x N array, rows 0..2.
Points(th) ==
    [r \in 0..2 |->
        [i \in DOMAIN th |->
            CASE r = 0 -> Cos(th[i])
              [] r = 1 -> Sin(th[i])
              [] r = 2 -> 0]]

(***************************************************************************)
(* Far fields: 3 x N complex arrays, rows 0..2 (x, y, z), columns 1..N.    *)
(***************************************************************************)
Vec(x, y, z) == [r \in 0..2 |-> CASE r = 0 -> x [] r = 1 -> y [] r = 2 -> z]

\* The 3 x N array whose column i is cols[i].
FromColumns(cols) == [r \in 0..2 |-> [i \in DOMAIN cols |-> cols[i][r]]]

\* Far-field vectors the external evaluator may return at one direction.
FarFieldSamplesZ ==
    { Vec(Cx(0, 0), Cx(0, 0), Cx(1, 0)),
      Vec(Cx(1, 2), Cx(-3, -1), Cx(-2, 1)) }

FarFieldSamplesY ==
    { Vec(Cx(0, 0), Cx(1, 0), Cx(0, 0)),
      Vec(Cx(2, -1), Cx(-2, 2), Cx(-1, 1)) }

\* Number of columns of a 3 x N array.
NumCols(f) == Len(f[0])

(***************************************************************************)
(* Amplitude scattering matrix.                                            *)
(***************************************************************************)
\* A value without trigonometric factor, in units of 1/TrigDen.
Fix(u) == RMul(TrigDen, u)

\* Mutant of A22Of: the y row, ffp_z[1,:], in place of the z row.
A22OfRowY(k, fz) ==
    [i \in DOMAIN fz[1] |-> CMul(MinusJTimes(k), Fix(fz[1][i]))]

\* A22 = -1j * kExt * ffp_z[2,:]
A22Of(k, fz) ==
    [i \in DOMAIN fz[2] |-> CMul(MinusJTimes(k), Fix(fz[2][i]))]

\* numpy's elementwise operators on one-dimensional arrays a and b: the
\* lengths must be equal, or one of them 1 (that array is then repeated);
\* otherwise the operator raises ValueError.
Broadcastable(a, b) == Len(a) = Len(b) \/ Len(a) = 1 \/ Len(b) = 1

\* The length of the result of an elementwise operator.
BroadcastLen(a, b) == IF Len(a) = 1 THEN Len(b) ELSE Len(a)

\* Element i of a in an elementwise operator.
At(a, i) == a[IF Len(a) = 1 THEN 1 ELSE i]

\* a repeated to length n.
BroadcastTo(a, n) == [i \in 1..n |-> At(a, i)]

\* Mutant of InPlane: sine and cosine exchanged.
InPlaneSwapped(th, f) ==
    [i \in 1..BroadcastLen(th, f[0]) |->
        CAdd(RMul(0 - Cos(At(th, i)), At(f[0], i)),
             RMul(Sin(At(th, i)), At(f[1], i)))]

\* Mutant of InPlane: every direction reads the far field of direction 0.
InPlaneFirstColumn(th, f) ==
    [i \in 1..BroadcastLen(th, f[0]) |->
        CAdd(RMul(0 - Sin(At(th, i)), f[0][1]),
             RMul(Cos(At(th, i)), f[1][1]))]

\* - np.sin(theta) * f[0,:] + np.cos(theta) * f[1,:]
InPlane(th, f) ==
    [i \in 1..BroadcastLen(th, f[0]) |->
        CAdd(RMul(0 - Sin(At(th, i)), At(f[0], i)),
             RMul(Cos(At(th, i)), At(f[1], i)))]

\* A12 = -1j * kExt * (- np.sin(theta) * ffp_z[0,:] + np.cos(theta) * ffp_z[1,:])
A12Of(k, th, fz) ==
    LET inPlane == InPlane(th, fz)
    IN  [i \in DOMAIN inPlane |-> CMul(MinusJTimes(k), inPlane[i])]

\* A11 = -1j * kExt * (- np.sin(theta) * ffp_y[0,:] + np.cos(theta) * ffp_y[1,:])
A11Of(k, th, fy) ==
    LET inPlane == InPlane(th, fy)
    IN  [i \in DOMAIN inPlane |-> CMul(MinusJTimes(k), inPlane[i])]

\* Mutant of A21Of: ffp_y[2,:-1], the last direction dropped.
A21OfDropLast(k, fy) ==
    [i \in 1..(Len(fy[2]) - 1) |-> CMul(MinusJTimes(k), Fix(fy[2][i]))]

\* A21 = -1j * kExt * ffp_y[2,:]
A21Of(k, fy) ==
    [i \in DOMAIN fy[2] |-> CMul(MinusJTimes(k), Fix(fy[2][i]))]

(***************************************************************************)
(* Phase scattering matrix, in units of 1/(2*TrigDen^2).                   *)
(***************************************************************************)
\* 0.5 * x, in half-units.
Times05(x) == x

\* x, in half-units.
Whole(x) == 2 * x

\* Mutant of S11Of: the signs of S12.
S11OfSignsOfS12(a11, a12, a21, a22) ==
    [i \in DOMAIN a11 |->
        IF NonFinite4(a11[i], a12[i], a21[i], a22[i]) THEN NaN
        ELSE Times05(Abs2(a11[i]) - Abs2(a22[i]) + Abs2(a21[i]) - Abs2(a12[i]))]

S11Of(a11, a12, a21, a22) ==
    [i \in DOMAIN a11 |->
        IF NonFinite4(a11[i], a12[i], a21[i], a22[i]) THEN NaN
        ELSE Times05(Abs2(a11[i]) + Abs2(a22[i]) + Abs2(a21[i]) + Abs2(a12[i]))]

\* Mutant of S12Of: the factor 0.5 left out.
S12OfNoHalf(a11, a12, a21, a22) ==
    [i \in DOMAIN a11 |->
        IF NonFinite4(a11[i], a12[i], a21[i], a22[i]) THEN NaN
        ELSE Whole(Abs2(a11[i]) - Abs2(a22[i]) + Abs2(a21[i]) - Abs2(a12[i]))]

S12Of(a11, a12, a21, a22) ==
    [i \in DOMAIN a11 |->
        IF NonFinite4(a11[i], a12[i], a21[i], a22[i]) THEN NaN
        ELSE Times05(Abs2(a11[i]) - Abs2(a22[i]) + Abs2(a21[i]) - Abs2(a12[i]))]

S13Of(a11, a12, a21, a22) ==
    [i \in DOMAIN a11 |->
        IF NonFinite4(a11[i], a12[i], a21[i], a22[i]) THEN NaN
        ELSE Whole(Real(CAdd(CMul(a11[i], Conjugate(a12[i])),
                             CMul(a22[i], Conjugate(a21[i])))))]

\* Mutant of S14Of: the sum of S24 instead of the difference.
S14OfSum(a11, a12, a21, a22) ==
    [i \in DOMAIN a11 |->
        IF NonFinite4(a11[i], a12[i], a21[i], a22[i]) THEN NaN
        ELSE Whole(Imag(CAdd(CMul(a11[i], Conjugate(a12[i])),
                             CMul(a22[i], Conjugate(a21[i])))))]

S14Of(a11, a12, a21, a22) ==
    [i \in DOMAIN a11 |->
        IF NonFinite4(a11[i], a12[i], a21[i], a22[i]) THEN NaN
        ELSE Whole(Imag(CSub(CMul(a11[i], Conjugate(a12[i])),
                             CMul(a22[i], Conjugate(a21[i])))))]

\* Mutant of S21Of: the signs of S12.
S21OfSignsOfS12(a11, a12, a21, a22) ==
    [i \in DOMAIN a11 |->
        IF NonFinite4(a11[i], a12[i], a21[i], a22[i]) THEN NaN
        ELSE Times05(Abs2(a11[i]) - Abs2(a22[i]) + Abs2(a21[i]) - Abs2(a12[i]))]

S21Of(a11, a12, a21, a22) ==
    [i \in DOMAIN a11 |->
        IF NonFinite4(a11[i], a12[i], a21[i], a22[i]) THEN NaN
        ELSE Times05(Abs2(a11[i]) - Abs2(a22[i]) - Abs2(a21[i]) + Abs2(a12[i]))]

\* Mutant of S22Of: the factor 0.5 left out.
S22OfNoHalf(a11, a12, a21, a22) ==
    [i \in DOMAIN a11 |->
        IF NonFinite4(a11[i], a12[i], a21[i], a22[i]) THEN NaN
        ELSE Whole(Abs2(a11[i]) + Abs2(a22[i]) - Abs2(a21[i]) - Abs2(a12[i]))]

S22Of(a11, a12, a21, a22) ==
    [i \in DOMAIN a11 |->
        IF NonFinite4(a11[i], a12[i], a21[i], a22[i]) THEN NaN
        ELSE Times05(Abs2(a11[i]) + Abs2(a22[i]) - Abs2(a21[i]) - Abs2(a12[i]))]

S23Of(a11, a12, a21, a22) ==
    [i \in DOMAIN a11 |->
        IF NonFinite4(a11[i], a12[i], a21[i], a22[i]) THEN NaN
        ELSE Whole(Real(CSub(CMul(a11[i], Conjugate(a12[i])),
                             CMul(a22[i], Conjugate(a21[i])))))]

S24Of(a11, a12, a21, a22) ==
    [i \in DOMAIN a11 |->
        IF NonFinite4(a11[i], a12[i], a21[i], a22[i]) THEN NaN
        ELSE Whole(Imag(CAdd(CMul(a11[i], Conjugate(a12[i])),
                             CMul(a22[i], Conjugate(a21[i])))))]

S31Of(a11, a12, a21, a22) ==
    [i \in DOMAIN a11 |->
        IF NonFinite4(a11[i], a12[i], a21[i], a22[i]) THEN NaN
        ELSE Whole(Real(CAdd(CMul(a11[i], Conjugate(a21[i])),
                             CMul(a22[i], Conjugate(a12[i])))))]

S32Of(a11, a12, a21, a22) ==
    [i \in DOMAIN a11 |->
        IF NonFinite4(a11[i], a12[i], a21[i], a22[i]) THEN NaN
        ELSE Whole(Real(CSub(CMul(a11[i], Conjugate(a21[i])),
                             CMul(a22[i], Conjugate(a12[i])))))]

\* Mutant of S33Of: A11 not conjugated.
S33OfNoConjugate(a11, a12, a21, a22) ==
    [i \in DOMAIN a11 |->
        IF NonFinite4(a11[i], a12[i], a21[i], a22[i]) THEN NaN
        ELSE Whole(Real(CAdd(CMul(a11[i], a22[i]),
                             CMul(a12[i], Conjugate(a21[i])))))]

S33Of(a11, a12, a21, a22) ==
    [i \in DOMAIN a11 |->
        IF NonFinite4(a11[i], a12[i], a21[i], a22[i]) THEN NaN
        ELSE Whole(Real(CAdd(CMul(Conjugate(a11[i]), a22[i]),
                             CMul(a12[i], Conjugate(a21[i])))))]

\* Mutant of S34Of: the conjugate on the first factor of each product.
S34OfConjFirst(a11, a12, a21, a22) ==
    [i \in DOMAIN a11 |->
        IF NonFinite4(a11[i], a12[i], a21[i], a22[i]) THEN NaN
        ELSE Whole(Imag(CAdd(CMul(Conjugate(a11[i]), a22[i]),
                             CMul(Conjugate(a21[i]), a12[i]))))]

S34Of(a11, a12, a21, a22) ==
    [i \in DOMAIN a11 |->
        IF NonFinite4(a11[i], a12[i], a21[i], a22[i]) THEN NaN
        ELSE Whole(Imag(CAdd(CMul(a11[i], Conjugate(a22[i])),
                             CMul(a21[i], Conjugate(a12[i])))))]

\* Mutant of S41Of: the conjugate on the second factor of each product.
S41OfConjSecond(a11, a12, a21, a22) ==
    [i \in DOMAIN a11 |->
        IF NonFinite4(a11[i], a12[i], a21[i], a22[i]) THEN NaN
        ELSE Whole(Imag(CAdd(CMul(a11[i], Conjugate(a21[i])),
                             CMul(a12[i], Conjugate(a22[i])))))]

S41Of(a11, a12, a21, a22) ==
    [i \in DOMAIN a11 |->
        IF NonFinite4(a11[i], a12[i], a21[i], a22[i]) THEN NaN
        ELSE Whole(Imag(CAdd(CMul(Conjugate(a11[i]), a21[i]),
                             CMul(Conjugate(a12[i]), a22[i]))))]

S42Of(a11, a12, a21, a22) ==
    [i \in DOMAIN a11 |->
        IF NonFinite4(a11[i], a12[i], a21[i], a22[i]) THEN NaN
        ELSE Whole(Imag(CSub(CMul(Conjugate(a11[i]), a21[i]),
                             CMul(Conjugate(a12[i]), a22[i]))))]

\* Mutant of S43Of: the conjugate on A22 instead of A11.
S43OfConjFirst(a11, a12, a21, a22) ==
    [i \in DOMAIN a11 |->
        IF NonFinite4(a11[i], a12[i], a21[i], a22[i]) THEN NaN
        ELSE Whole(Imag(CSub(CMul(Conjugate(a22[i]), a11[i]),
                             CMul(a12[i], Conjugate(a21[i])))))]

S43Of(a11, a12, a21, a22) ==
    [i \in DOMAIN a11 |->
        IF NonFinite4(a11[i], a12[i], a21[i], a22[i]) THEN NaN
        ELSE Whole(Imag(CSub(CMul(a22[i], Conjugate(a11[i])),
                             CMul(a12[i], Conjugate(a21[i])))))]

\* Mutant of S44Of: a sum in place of the first product.
S44OfSumTypo(a11, a12, a21, a22) ==
    [i \in DOMAIN a11 |->
        IF NonFinite4(a11[i], a12[i], a21[i], a22[i]) THEN NaN
        ELSE Whole(Real(CSub(CAdd(Conjugate(a11[i]), a22[i]),
                             CMul(a12[i], Conjugate(a21[i])))))]

S44Of(a11, a12, a21, a22) ==
    [i \in DOMAIN a11 |->
        IF NonFinite4(a11[i], a12[i], a21[i], a22[i]) THEN NaN
        ELSE Whole(Real(CSub(CMul(Conjugate(a11[i]), a22[i]),
                             CMul(a12[i], Conjugate(a21[i])))))]

(***************************************************************************)
(* The boundary integral equation.  The operators, right-hand sides,       *)
(* solutions and boundary data are BEM++ objects whose values the          *)
(* notebooks never look at; they are kept as terms that record what they   *)
(* were built from.                                                        *)
(***************************************************************************)
\* incDirichletTrace_z, incNeumannTrace_z, incDirichletTrace_y,
\* incNeumannTrace_y: the traces of the incident wave of polarization pol.
IncTrace(kind, pol) == [trace |-> kind, pol |-> pol]

\* idOp * g, or -idOp * g with sign = -1.
IdOpTimes(sign, g) == [sign |-> sign, idOp |-> g]

\* The blocks lhsOp[0,0], lhsOp[0,1], lhsOp[1,0], lhsOp[1,1].
Blocks(b00, b01, b10, b11) ==
    [b \in {0, 1} \X {0, 1} |->
        CASE b = <<0, 0>> -> b00
          [] b = <<0, 1>> -> b01
          [] b = <<1, 0>> -> b10
          [] b = <<1, 1>> -> b11]

\* The cell of the first formulation: lhsOp[0,0] = lhsOp[1,1] = dlpOpExt +
\* dlpOpInt, ...; uI = idOp * incDirichletTrace, dudnI = idOp *
\* incNeumannTrace; rhs = (uI, dudnI).
FirstFormulation ==
    [lhsOp |-> Blocks("dlpOpExt + dlpOpInt",
                      "slpOpExt + (1. / rho) * slpOpInt",
                      "-(slpOpExt + rho * slpOpInt)",
                      "dlpOpExt + dlpOpInt"),
     rhs_z |-> <<IdOpTimes(1, IncTrace("Dirichlet", "z")),
                 IdOpTimes(1, IncTrace("Neumann", "z"))>>,
     rhs_y |-> <<IdOpTimes(1, IncTrace("Dirichlet", "y")),
                 IdOpTimes(1, IncTrace("Neumann", "y"))>>]

\* The cell of the alternative formulation: lhsOp[0,0] = lhsOp[1,1] =
\* slpOpExt + slpOpInt, ...; uI = idOp * incDirichletTrace, dudnI = -idOp *
\* incNeumannTrace; rhs = (dudnI, uI).
AlternativeFormulation ==
    [lhsOp |-> Blocks("slpOpExt + slpOpInt",
                      "-(dlpOpExt + dlpOpInt * (1. / rho) + 0.5 * (1. - 1. / rho) * idOp)",
                      "(dlpOpExt + dlpOpInt * rho + 0.5 * (1. - 1. * rho) * idOp)",
                      "slpOpExt + slpOpInt"),
     rhs_z |-> <<IdOpTimes(-1, IncTrace("Neumann", "z")),
                 IdOpTimes(1, IncTrace("Dirichlet", "z"))>>,
     rhs_y |-> <<IdOpTimes(-1, IncTrace("Neumann", "y")),
                 IdOpTimes(1, IncTrace("Dirichlet", "y"))>>]

\* Mutant of ActiveFormulation: in the GMRES notebook the right-hand-side
\* lines of the first formulation are not commented out.
ActiveFormulationMixed(nb) ==
    IF nb = "dense" THEN FirstFormulation
    ELSE [AlternativeFormulation EXCEPT !.rhs_z = FirstFormulation.rhs_z,
                                        !.rhs_y = FirstFormulation.rhs_y]

\* The formulation whose cell is not commented out: the first one in the
\* dense notebook, the alternative one in the GMRES notebook.
ActiveFormulation(nb) ==
    IF nb = "dense" THEN FirstFormulation ELSE AlternativeFormulation

\* The solution that np.linalg.solve or gmres returns for the system
\* op * x = rhs.
SolutionOf(op, rhs) == [lhsOp |-> op, rhs |-> rhs]

\* Block b of the solution lambda as boundary data: GridFunction(space,
\* coefficients=lambda[:n]) and lambda[n:] in the dense notebook, lambda[0]
\* and lambda[1] in the GMRES notebook.
Block(lambda, b) == [block |-> b, of |-> lambda]

\* Mutant of FarFieldArguments: the Neumann data of the y polarization in
\* the far field of the z polarization.
FarFieldArgumentsCrossed ==
    [z |-> <<total_field_dirichlet_z, total_field_neumann_y>>,
     y |-> <<total_field_dirichlet_y, total_field_neumann_y>>]

\* The boundary data evaluated for ffp_z and for ffp_y.
FarFieldArguments ==
    [z |-> <<total_field_dirichlet_z, total_field_neumann_z>>,
     y |-> <<total_field_dirichlet_y, total_field_neumann_y>>]

\* The names above the grid cell as a run of notebook nb leaves them for the
\* amplitude cell.
BoundaryDataOf(nb) ==
    LET f == ActiveFormulation(nb)
    IN  /\ lhsOp = f.lhsOp /\ rhs_z = f.rhs_z /\ rhs_y = f.rhs_y
        /\ lambda_data_z = SolutionOf(lhsOp, rhs_z)
        /\ lambda_data_y = SolutionOf(lhsOp, rhs_y)
        /\ total_field_dirichlet_z = Block(lambda_data_z, 0)
        /\ total_field_neumann_z = Block(lambda_data_z, 1)
        /\ total_field_dirichlet_y = Block(lambda_data_y, 0)
        /\ total_field_neumann_y = Block(lambda_data_y, 1)
        /\ evaluated = FarFieldArguments

(***************************************************************************)
(* The notebook as a state machine: one action per cell.                   *)
(***************************************************************************)
Init ==
    /\ notebook \in {"dense", "gmres"}
    /\ error = "none"
    /\ printed = << >>
    /\ info = << >>
    /\ numAngles = << >> /\ s1 = << >> /\ s2 = << >> /\ P11Mie = << >>
    /\ ax1 = << >> /\ ax2 = << >>
    /\ pc = "params"
    /\ runs = 0
    /\ kExt = 0
    /\ lhsOp = << >> /\ rhs_z = << >> /\ rhs_y = << >>
    /\ lambda_data_z = << >> /\ lambda_data_y = << >>
    /\ total_field_dirichlet_z = << >> /\ total_field_neumann_z = << >>
    /\ total_field_dirichlet_y = << >> /\ total_field_neumann_y = << >>
    /\ evaluated = << >>
    /\ theta = << >>
    /\ points = << >>
    /\ ffp_z = << >>
    /\ ffp_y = << >>
    /\ A11 = << >> /\ A12 = << >> /\ A21 = << >> /\ A22 = << >>
    /\ S11 = << >> /\ S12 = << >> /\ S13 = << >> /\ S14 = << >>
    /\ S21 = << >> /\ S22 = << >> /\ S23 = << >> /\ S24 = << >>
    /\ S31 = << >> /\ S32 = << >> /\ S33 = << >> /\ S34 = << >>
    /\ S41 = << >> /\ S42 = << >> /\ S43 = << >> /\ S44 = << >>

\* kExt = 5.
ParamsCell ==
    /\ pc = "params"
    /\ error = "none"
    /\ kExt' = KExtValue
    /\ pc' = "assembly"
    /\ UNCHANGED <<runs, theta, points, ffp_z, ffp_y, amp, phase,
                   notebook, boundary, error, solve, mie, plot>>

\* The cell that is not commented out of the two that form the left- and
\* right-hand-side operators: lhsOp = bempp.api.BlockedOperator(2, 2), its
\* four blocks, uI_z, dudnI_z, uI_y, dudnI_y, rhs_z and rhs_y.
AssemblyCell ==
    /\ pc = "assembly"
    /\ error = "none"
    /\ lhsOp' = ActiveFormulation(notebook).lhsOp
    /\ rhs_z' = ActiveFormulation(notebook).rhs_z
    /\ rhs_y' = ActiveFormulation(notebook).rhs_y
    /\ pc' = "solve"
    /\ UNCHANGED <<runs, kExt, theta, points, ffp_z, ffp_y, amp, phase,
                   notebook, lambdas, traces, evaluated, error, solve,
                   mie, plot>>

\* Dense notebook: lambda_data_z / lambda_data_y = np.linalg.solve(numpy_mat, rhs),
\* which returns the solution or raises LinAlgError (singular matrix).
SolveCell ==
    /\ pc = "solve"
    /\ error = "none"
    /\ notebook = "dense"
    /\ \E raised \in BOOLEAN :
          /\ error' = IF raised THEN "LinAlgError" ELSE error
          /\ pc' = IF raised THEN pc ELSE "fields"
          /\ lambda_data_z' = IF raised THEN lambda_data_z
                               ELSE SolutionOf(lhsOp, rhs_z)
          /\ lambda_data_y' = IF raised THEN lambda_data_y
                               ELSE SolutionOf(lhsOp, rhs_y)
    /\ UNCHANGED <<runs, kExt, theta, points, ffp_z, ffp_y, amp, phase,
                   notebook, bie, traces, evaluated, solve, mie, plot>>

\* GMRES notebook: lambda_data_z, info, its_z = bempp.api.linalg.gmres(...);
\* print(... its_z).  info is 0 on convergence and non-zero otherwise.
SolveZCell ==
    /\ pc = "solve"
    /\ error = "none"
    /\ notebook = "gmres"
    /\ \E status \in GmresInfo : info' = status
    /\ printed' = Append(printed, [msg |-> "solved", arg |-> "z"])
    /\ lambda_data_z' = SolutionOf(lhsOp, rhs_z)
    /\ pc' = "solve_y"
    /\ UNCHANGED <<runs, kExt, theta, points, ffp_z, ffp_y, amp, phase,
                   notebook, bie, lambda_data_y, traces, evaluated, error,
                   mie, plot>>

\* GMRES notebook: lambda_data_y, info, its_y = bempp.api.linalg.gmres(...);
\* print(... its_y).  The name info is assigned again.
SolveYCell ==
    /\ pc = "solve_y"
    /\ error = "none"
    /\ notebook = "gmres"
    /\ \E status \in GmresInfo : info' = status
    /\ printed' = Append(printed, [msg |-> "solved", arg |-> "y"])
    /\ lambda_data_y' = SolutionOf(lhsOp, rhs_y)
    /\ pc' = "fields"
    /\ UNCHANGED <<runs, kExt, theta, points, ffp_z, ffp_y, amp, phase,
                   notebook, bie, lambda_data_z, traces, evaluated, error,
                   mie, plot>>

\* The boundary data of the total field: block 0 of each solution is the
\* Dirichlet data and block 1 the Neumann data.
FieldsCell ==
    /\ pc = "fields"
    /\ error = "none"
    /\ total_field_dirichlet_z' = Block(lambda_data_z, 0)
    /\ total_field_neumann_z' = Block(lambda_data_z, 1)
    /\ total_field_dirichlet_y' = Block(lambda_data_y, 0)
    /\ total_field_neumann_y' = Block(lambda_data_y, 1)
    /\ pc' = "grid"
    /\ UNCHANGED <<runs, kExt, theta, points, ffp_z, ffp_y, amp, phase,
                   notebook, bie, lambdas, evaluated, error, solve,
                   mie, plot>>

\* theta = np.linspace(0, 2 * np.pi, N); points = np.vstack([...])
GridCell ==
    /\ pc = "grid"
    /\ error = "none"
    /\ \E n \in 1..MaxPoints :
          /\ theta' = Linspace2Pi(n)
          /\ points' = Points(Linspace2Pi(n))
    /\ pc' = "farfield"
    /\ UNCHANGED <<runs, kExt, ffp_z, ffp_y, amp, phase,
                   notebook, boundary, error, solve, mie, plot>>

\* ffp_z = -dlp_far_field.evaluate(total_field_dirichlet_z)
\*         -slp_far_field.evaluate(total_field_neumann_z), and ffp_y alike:
\* the external far-field evaluator returns one complex 3-vector per column
\* of points.
FarFieldCell ==
    /\ pc = "farfield"
    /\ error = "none"
    /\ \E cz \in [DOMAIN points[0] -> FarFieldSamplesZ],
          cy \in [DOMAIN points[0] -> FarFieldSamplesY] :
          /\ ffp_z' = FromColumns(cz)
          /\ ffp_y' = FromColumns(cy)
    /\ evaluated' = FarFieldArguments
    /\ pc' = "amplitude"
    /\ UNCHANGED <<runs, kExt, theta, points, amp, phase,
                   notebook, bie, lambdas, traces, error, solve, mie, plot>>

\* Mutant of AmplitudeBody: the z row of ffp_z is scaled in place
\* (ffp_z[2,:] *= -1j * kExt) and A22 is that row.
AmplitudeBodyInPlace ==
    /\ ffp_z' = [ffp_z EXCEPT
                    ![2] = [i \in DOMAIN ffp_z[2] |->
                               CMul(MinusJTimes(kExt), ffp_z[2][i])]]
    /\ A22' = [i \in DOMAIN ffp_z[2] |-> Fix(ffp_z'[2][i])]
    /\ A12' = A12Of(kExt, theta, ffp_z)
    /\ A11' = A11Of(kExt, theta, ffp_y)
    /\ A21' = A21Of(kExt, ffp_y)
    /\ error' = error
    /\ UNCHANGED <<kExt, theta, points, ffp_y>>

\* Mutant of AmplitudeBody: the z row of ffp_y is scaled in place
\* (ffp_y[2,:] *= -1j * kExt) and A21 is that row.
AmplitudeBodyInPlaceY ==
    /\ ffp_y' = [ffp_y EXCEPT
                    ![2] = [i \in DOMAIN ffp_y[2] |->
                               CMul(MinusJTimes(kExt), ffp_y[2][i])]]
    /\ A22' = A22Of(kExt, ffp_z)
    /\ A12' = A12Of(kExt, theta, ffp_z)
    /\ A11' = A11Of(kExt, theta, ffp_y)
    /\ A21' = [i \in DOMAIN ffp_y[2] |-> Fix(ffp_y'[2][i])]
    /\ error' = error
    /\ UNCHANGED <<kExt, theta, points, ffp_z>>

\* The four assignments of the amplitude scattering matrix cell, in the
\* order A22, A12, A11, A21.  An assignment whose right-hand side raises
\* ValueError (np.sin(theta) * ffp[0,:] on lengths that do not broadcast)
\* ends the cell: the names assigned before it keep their new values.
AmplitudeBody ==
    LET okZ == Broadcastable(theta, ffp_z[0])
        okY == Broadcastable(theta, ffp_y[0])
    IN  /\ A22' = A22Of(kExt, ffp_z)
        /\ A12' = IF okZ THEN A12Of(kExt, theta, ffp_z) ELSE A12
        /\ A11' = IF okZ /\ okY THEN A11Of(kExt, theta, ffp_y) ELSE A11
        /\ A21' = IF okZ /\ okY THEN A21Of(kExt, ffp_y) ELSE A21
        /\ error' = IF okZ /\ okY THEN error ELSE "ValueError"
        /\ UNCHANGED <<kExt, theta, points, ffp_z, ffp_y>>

AmplitudeCell ==
    /\ pc = "amplitude"
    /\ error = "none"
    /\ AmplitudeBody
    /\ runs' = runs + 1
    /\ pc' = IF error' = "none" THEN "phase" ELSE pc
    /\ UNCHANGED <<phase, notebook, boundary, solve, mie, plot>>

\* The amplitude cell executed again, later in the session, on the names as
\* they then are.
RerunAmplitudeCell ==
    /\ pc \in {"phase", "mie"}
    /\ error = "none"
    /\ runs < MaxRuns
    /\ AmplitudeBody
    /\ runs' = runs + 1
    /\ UNCHANGED <<pc, phase, notebook, boundary, solve, mie, plot>>

\* Mutant of PhaseCell: the phase cell placed before the amplitude cell.
PhaseCellEarly ==
    /\ pc = "amplitude"
    /\ error = "none"
    /\ S11' = S11Of(A11, A12, A21, A22)
    /\ S12' = S12Of(A11, A12, A21, A22)
    /\ S13' = S13Of(A11, A12, A21, A22)
    /\ S14' = S14Of(A11, A12, A21, A22)
    /\ S21' = S21Of(A11, A12, A21, A22)
    /\ S22' = S22Of(A11, A12, A21, A22)
    /\ S23' = S23Of(A11, A12, A21, A22)
    /\ S24' = S24Of(A11, A12, A21, A22)
    /\ S31' = S31Of(A11, A12, A21, A22)
    /\ S32' = S32Of(A11, A12, A21, A22)
    /\ S33' = S33Of(A11, A12, A21, A22)
    /\ S34' = S34Of(A11, A12, A21, A22)
    /\ S41' = S41Of(A11, A12, A21, A22)
    /\ S42' = S42Of(A11, A12, A21, A22)
    /\ S43' = S43Of(A11, A12, A21, A22)
    /\ S44' = S44Of(A11, A12, A21, A22)
    /\ pc' = "mie"
    /\ UNCHANGED <<runs, kExt, theta, points, ffp_z, ffp_y, amp,
                   notebook, boundary, error, solve, mie, plot>>

\* The sixteen assignments of the phase scattering matrix cell.  Every
\* right-hand side combines the four amplitude arrays elementwise; the first
\* one raises ValueError when their lengths do not broadcast, and no name is
\* assigned then.
PhaseCell ==
    /\ pc = "phase"
    /\ error = "none"
    /\ LET n == Max4(Len(A11), Len(A12), Len(A21), Len(A22))
           ok == \A a \in {A11, A12, A21, A22} : Len(a) \in {1, n}
           b11 == BroadcastTo(A11, n)
           b12 == BroadcastTo(A12, n)
           b21 == BroadcastTo(A21, n)
           b22 == BroadcastTo(A22, n)
       IN  IF ok
           THEN
              /\ S11' = S11Of(b11, b12, b21, b22)
              /\ S12' = S12Of(b11, b12, b21, b22)
              /\ S13' = S13Of(b11, b12, b21, b22)
              /\ S14' = S14Of(b11, b12, b21, b22)
              /\ S21' = S21Of(b11, b12, b21, b22)
              /\ S22' = S22Of(b11, b12, b21, b22)
              /\ S23' = S23Of(b11, b12, b21, b22)
              /\ S24' = S24Of(b11, b12, b21, b22)
              /\ S31' = S31Of(b11, b12, b21, b22)
              /\ S32' = S32Of(b11, b12, b21, b22)
              /\ S33' = S33Of(b11, b12, b21, b22)
              /\ S34' = S34Of(b11, b12, b21, b22)
              /\ S41' = S41Of(b11, b12, b21, b22)
              /\ S42' = S42Of(b11, b12, b21, b22)
              /\ S43' = S43Of(b11, b12, b21, b22)
              /\ S44' = S44Of(b11, b12, b21, b22)
              /\ pc' = "mie"
              /\ error' = error
           ELSE
              /\ UNCHANGED phase
              /\ pc' = pc
              /\ error' = "ValueError"
    /\ UNCHANGED <<runs, kExt, theta, points, ffp_z, ffp_y, amp,
                   notebook, boundary, solve, mie, plot>>

\* Mutant of Bhmie: as many entries as angles asked for.
BhmieNang(nang, base) ==
    [j \in 1..nang |-> CAdd(base, Cx(j, 0))]

\* s1 or s2 of bhmie(ka, refIndex, nang).  mie_series is not part of the
\* notebooks; its values are taken from MieSamples, one base value per
\* array and a different value at every angle.  The arrays have
\* 2 * nang - 1 entries: the plot cell draws them against theta[:1801]
\* for numAngles = 901, and its recorded output is the figure.
Bhmie(nang, base) ==
    [j \in 1..(2 * nang - 1) |-> CAdd(base, Cx(j, 0))]

\* The angle of entry k of s1 and s2, of len entries from 0 to pi in equal
\* steps, as a fraction of a turn.
MieAngle(k, len) == [n |-> k - 1, d |-> 2 * (len - 1)]

\* Base values <<s1, s2>> of the Mie series.
MieSamples ==
    { <<Cx(1, 1), Cx(2, -1)>> }

\* The Mie cell: numAngles = 901 (here NumAnglesValue);
\* [s1,s2,qext,qsca,qback,gsca] = bhmie(ka,refIndex,numAngles);
\* P11Mie = 0.5*(abs(s1)**2+abs(s2)**2), here in half-units.
\* The scalars ka, refIndex, qext, qsca, qback, gsca are not read again.
MieCell ==
    /\ pc = "mie"
    /\ error = "none"
    /\ numAngles' = NumAnglesValue
    /\ \E m \in MieSamples :
          /\ s1' = Bhmie(numAngles', m[1])
          /\ s2' = Bhmie(numAngles', m[2])
    /\ P11Mie' = [j \in DOMAIN s1' |-> Times05(Abs2(s1'[j]) + Abs2(s2'[j]))]
    /\ pc' = "plot"
    /\ UNCHANGED <<runs, kExt, theta, points, ffp_z, ffp_y, amp, phase,
                   notebook, boundary, error, solve, plot>>

\* Mutant of Slice: a[1:n+1].
SliceFromSecond(a, n) == SubSeq(a, 2, IF n + 1 < Len(a) THEN n + 1 ELSE Len(a))

\* a[:n]
Slice(a, n) == SubSeq(a, 1, IF n < Len(a) THEN n ELSE Len(a))

\* abs(a)**2
Abs2Seq(a) == [i \in DOMAIN a |-> Abs2(a[i])]

\* One curve of semilogy(x, y, fmt).
Line(x, y, fmt) == [x |-> x, y |-> y, fmt |-> fmt]

\* Mutant of PlotLines: the Mie arrays exchanged between the two axes.
PlotLinesMieSwapped(x, mie1, mie2, a11, a22) ==
    [ax1 |-> <<Line(x, Abs2Seq(mie1), "-r"),
               Line(x, Abs2Seq(Slice(a11, ThetaSlice)), "--b")>>,
     ax2 |-> <<Line(x, Abs2Seq(mie2), "-r"),
               Line(x, Abs2Seq(Slice(a22, ThetaSlice)), "--b")>>]

\* Mutant of PlotLines: A11 and A22 exchanged between the two axes.
PlotLinesBemSwapped(x, mie1, mie2, a11, a22) ==
    [ax1 |-> <<Line(x, Abs2Seq(mie2), "-r"),
               Line(x, Abs2Seq(Slice(a22, ThetaSlice)), "--b")>>,
     ax2 |-> <<Line(x, Abs2Seq(mie1), "-r"),
               Line(x, Abs2Seq(Slice(a11, ThetaSlice)), "--b")>>]

\* ax1.semilogy(theta[:1801],abs(s2)**2,'-r',theta[:1801],abs(A11[:1801])**2,'--b')
\* ax2.semilogy(theta[:1801],abs(s1)**2,'-r',theta[:1801],abs(A22[:1801])**2,'--b')
\* with x = theta[:1801]; 1801 is ThetaSlice here.  The Mie curves are in
\* units of 1, the BEM curves in units of 1/TrigDen^2.
PlotLines(x, mie1, mie2, a11, a22) ==
    [ax1 |-> <<Line(x, Abs2Seq(mie2), "-r"),
               Line(x, Abs2Seq(Slice(a11, ThetaSlice)), "--b")>>,
     ax2 |-> <<Line(x, Abs2Seq(mie1), "-r"),
               Line(x, Abs2Seq(Slice(a22, ThetaSlice)), "--b")>>]

\* The plot cell.  semilogy raises ValueError when the x and y of a curve
\* have different lengths ("x and y must have same first dimension");
\* nothing is drawn by that call and the cell ends.  A non-finite ordinate
\* is drawn as a gap, and the logarithmic scale prints
\* "RuntimeWarning: invalid value encountered in less_equal".
PlotCell ==
    /\ pc = "plot"
    /\ error = "none"
    /\ LET x == Slice(theta, ThetaSlice)
           lines == PlotLines(x, s1, s2, A11, A22)
           ok1 == \A k \in DOMAIN lines.ax1 :
                     Len(lines.ax1[k].x) = Len(lines.ax1[k].y)
           ok2 == \A k \in DOMAIN lines.ax2 :
                     Len(lines.ax2[k].x) = Len(lines.ax2[k].y)
       IN  /\ ax1' = IF ok1 THEN lines.ax1 ELSE ax1
           /\ ax2' = IF ok1 /\ ok2 THEN lines.ax2 ELSE ax2
           /\ error' = IF ok1 /\ ok2 THEN error ELSE "ValueError"
           /\ pc' = IF ok1 /\ ok2 THEN "done" ELSE pc
           /\ printed' =
                  IF ok1 /\ ok2 /\ \E a \in {Slice(A11, ThetaSlice),
                                              Slice(A22, ThetaSlice), s1, s2} :
                                      \E k \in DOMAIN a : IsNaN(a[k])
                  THEN Append(printed, [msg |-> "RuntimeWarning",
                                        arg |-> "less_equal"])
                  ELSE printed
    /\ UNCHANGED <<runs, kExt, theta, points, ffp_z, ffp_y, amp, phase,
                   notebook, boundary, info, mie>>

Next ==
    \/ ParamsCell
    \/ AssemblyCell
    \/ SolveCell
    \/ SolveZCell
    \/ SolveYCell
    \/ FieldsCell
    \/ GridCell
    \/ FarFieldCell
    \/ AmplitudeCell
    \/ PhaseCell
    \/ MieCell
    \/ PlotCell

Spec == Init /\ [][Next]_vars

(***************************************************************************)
(* A session, up to the phase cell, in which the amplitude cell may be     *)
(* executed again.                                                         *)
(***************************************************************************)
NextRerun ==
    \/ ParamsCell
    \/ AssemblyCell
    \/ SolveCell
    \/ SolveZCell
    \/ SolveYCell
    \/ FieldsCell
    \/ GridCell
    \/ FarFieldCell
    \/ AmplitudeCell
    \/ PhaseCell
    \/ RerunAmplitudeCell

SpecRerun == Init /\ [][NextRerun]_vars

(***************************************************************************)
(* The two builders on every far-field value of a box: one direction       *)
(* (theta = 0), so that A22, A12, A11, A21 are -1j * kExt times the z and  *)
(* y components of ffp_z and the y and z components of ffp_y.              *)
(***************************************************************************)
BoxValues ==
    { Cx(a, b) : a \in (0 - FieldBound)..FieldBound, b \in 0..FieldBound }

InitBox ==
    /\ notebook = "dense"
    /\ error = "none"
    /\ printed = << >>
    /\ info = << >>
    /\ numAngles = << >> /\ s1 = << >> /\ s2 = << >> /\ P11Mie = << >>
    /\ ax1 = << >> /\ ax2 = << >>
    /\ pc = "amplitude"
    /\ runs = 0
    /\ kExt = KExtValue
    /\ BoundaryDataOf(notebook)
    /\ theta = Linspace2Pi(1)
    /\ points = Points(Linspace2Pi(1))
    /\ \E zy \in BoxValues, zz \in BoxValues :
          ffp_z = FromColumns(<<Vec(Cx(0, 0), zy, zz)>>)
    /\ \E yy \in BoxValues, yz \in BoxValues :
          ffp_y = FromColumns(<<Vec(Cx(0, 0), yy, yz)>>)
    /\ A11 = << >> /\ A12 = << >> /\ A21 = << >> /\ A22 = << >>
    /\ S11 = << >> /\ S12 = << >> /\ S13 = << >> /\ S14 = << >>
    /\ S21 = << >> /\ S22 = << >> /\ S23 = << >> /\ S24 = << >>
    /\ S31 = << >> /\ S32 = << >> /\ S33 = << >> /\ S34 = << >>
    /\ S41 = << >> /\ S42 = << >> /\ S43 = << >> /\ S44 = << >>

NextBox ==
    \/ AmplitudeCell
    \/ PhaseCell

SpecBox == InitBox /\ [][NextBox]_vars

\* One direction at theta = 0 and far fields with every component of real and
\* imaginary part -1, 0 or 1 in the y and z rows, the zero far field among
\* them: the inputs of the scaling properties.
SquareValues == { Cx(a, b) : a \in {-1, 0, 1}, b \in {-1, 0, 1} }

InitSquare ==
    /\ notebook = "dense"
    /\ error = "none"
    /\ printed = << >>
    /\ info = << >>
    /\ numAngles = << >> /\ s1 = << >> /\ s2 = << >> /\ P11Mie = << >>
    /\ ax1 = << >> /\ ax2 = << >>
    /\ pc = "amplitude"
    /\ runs = 0
    /\ kExt = KExtValue
    /\ BoundaryDataOf(notebook)
    /\ theta = Linspace2Pi(1)
    /\ points = Points(Linspace2Pi(1))
    /\ \E zy \in SquareValues, zz \in SquareValues :
          ffp_z = FromColumns(<<Vec(Cx(0, 0), zy, zz)>>)
    /\ \E yy \in SquareValues, yz \in SquareValues :
          ffp_y = FromColumns(<<Vec(Cx(0, 0), yy, yz)>>)
    /\ A11 = << >> /\ A12 = << >> /\ A21 = << >> /\ A22 = << >>
    /\ S11 = << >> /\ S12 = << >> /\ S13 = << >> /\ S14 = << >>
    /\ S21 = << >> /\ S22 = << >> /\ S23 = << >> /\ S24 = << >>
    /\ S31 = << >> /\ S32 = << >> /\ S33 = << >> /\ S34 = << >>
    /\ S41 = << >> /\ S42 = << >> /\ S43 = << >> /\ S44 = << >>

SpecSquare == InitSquare /\ [][NextBox]_vars

(***************************************************************************)
(* The cells from the amplitude cell on, on angles and far fields of any   *)
(* lengths: theta of n directions, ffp_z of nz columns and ffp_y of ny     *)
(* columns, as the names hold them when the grid cell and the far-field    *)
(* cells were not executed on the same grid.                               *)
(***************************************************************************)
InitShapes ==
    /\ notebook \in {"dense", "gmres"}
    /\ error = "none"
    /\ printed = IF notebook = "gmres"
                THEN <<[msg |-> "solved", arg |-> "z"],
                       [msg |-> "solved", arg |-> "y"]>>
                ELSE << >>
    /\ info = IF notebook = "gmres" THEN 0 ELSE << >>
    /\ numAngles = << >> /\ s1 = << >> /\ s2 = << >> /\ P11Mie = << >>
    /\ ax1 = << >> /\ ax2 = << >>
    /\ pc = "amplitude"
    /\ runs = 0
    /\ kExt = KExtValue
    /\ BoundaryDataOf(notebook)
    /\ \E n \in 1..MaxPoints :
          /\ theta = Linspace2Pi(n)
          /\ points = Points(Linspace2Pi(n))
    /\ \E nz \in 1..MaxPoints, vz \in FarFieldSamplesZ :
          ffp_z = FromColumns([i \in 1..nz |-> vz])
    /\ \E ny \in 1..MaxPoints, vy \in FarFieldSamplesY :
          ffp_y = FromColumns([i \in 1..ny |-> vy])
    /\ A11 = << >> /\ A12 = << >> /\ A21 = << >> /\ A22 = << >>
    /\ S11 = << >> /\ S12 = << >> /\ S13 = << >> /\ S14 = << >>
    /\ S21 = << >> /\ S22 = << >> /\ S23 = << >> /\ S24 = << >>
    /\ S31 = << >> /\ S32 = << >> /\ S33 = << >> /\ S34 = << >>
    /\ S41 = << >> /\ S42 = << >> /\ S43 = << >> /\ S44 = << >>

NextShapes ==
    \/ AmplitudeCell
    \/ PhaseCell
    \/ MieCell
    \/ PlotCell

SpecShapes == InitShapes /\ [][NextShapes]_vars

(***************************************************************************)
(* The cells from the amplitude cell on, on far fields of which one        *)
(* component at one direction is non-finite (the far-field evaluator       *)
(* returns what the solution gives it, and nothing looks at the values).   *)
(***************************************************************************)
\* The 3 x N array f with the component of row r at direction j non-finite.
WithNonFinite(f, r, j) == [f EXCEPT ![r] = [f[r] EXCEPT ![j] = NaN]]

InitNonFinite ==
    /\ notebook \in {"dense", "gmres"}
    /\ error = "none"
    /\ printed = IF notebook = "gmres"
                 THEN <<[msg |-> "solved", arg |-> "z"],
                        [msg |-> "solved", arg |-> "y"]>>
                 ELSE << >>
    /\ info = IF notebook = "gmres" THEN 0 ELSE << >>
    /\ numAngles = << >> /\ s1 = << >> /\ s2 = << >> /\ P11Mie = << >>
    /\ ax1 = << >> /\ ax2 = << >>
    /\ pc = "amplitude"
    /\ runs = 0
    /\ kExt = KExtValue
    /\ BoundaryDataOf(notebook)
    /\ \E n \in 1..MaxPoints :
          /\ theta = Linspace2Pi(n)
          /\ points = Points(Linspace2Pi(n))
          /\ \E vz \in FarFieldSamplesZ, vy \in FarFieldSamplesY :
             \E j \in 1..n, r \in 0..2, inZ \in BOOLEAN :
                LET fz == FromColumns([i \in 1..n |-> vz])
                    fy == FromColumns([i \in 1..n |-> vy])
                IN  /\ ffp_z = IF inZ THEN WithNonFinite(fz, r, j) ELSE fz
                    /\ ffp_y = IF inZ THEN fy ELSE WithNonFinite(fy, r, j)
    /\ A11 = << >> /\ A12 = << >> /\ A21 = << >> /\ A22 = << >>
    /\ S11 = << >> /\ S12 = << >> /\ S13 = << >> /\ S14 = << >>
    /\ S21 = << >> /\ S22 = << >> /\ S23 = << >> /\ S24 = << >>
    /\ S31 = << >> /\ S32 = << >> /\ S33 = << >> /\ S34 = << >>
    /\ S41 = << >> /\ S42 = << >> /\ S43 = << >> /\ S44 = << >>

SpecNonFinite == InitNonFinite /\ [][NextShapes]_vars

(***************************************************************************)
(* Properties.                                                             *)
(*                                                                         *)
(* The formulas below are written on real and imaginary parts, not with    *)
(* the complex operators the builders use:                                 *)
(*   -i * k * (a + i b)     = k b - i k a                                  *)
(*   Re(u * conj(v))        = u.re v.re + u.im v.im                        *)
(*   Im(u * conj(v))        = u.im v.re - u.re v.im                        *)
(*   Im(conj(u) * v)        = Im(v * conj(u))                              *)
(***************************************************************************)
AmplitudeDone == pc \in {"phase", "mie", "plot", "done"}

PhaseDone == pc \in {"mie", "plot", "done"}

\* Index set of the far-field directions (1..N for the code's 0..N-1).
Idx == 1..Len(theta)

\* -i * k * u, for u in units of 1/TrigDen
MinusIK(k, u) == Cx(k * u.im, 0 - k * u.re)

ReConj(u, v) == u.re * v.re + u.im * v.im

ImConj(u, v) == u.im * v.re - u.re * v.im

Mod2(u) == u.re * u.re + u.im * u.im

Zero == Cx(0, 0)

\* C1: once the amplitude cell has run, for every direction i,
\* A22[i] = -i*k*F_z[i].z and A21[i] = -i*k*F_y[i].z (both in units of 1/TrigDen).
C1_AmplitudeZComponent ==
    AmplitudeDone =>
        \A i \in Idx :
            /\ A22[i] = MinusIK(kExt, Cx(TrigDen * ffp_z[2][i].re, TrigDen * ffp_z[2][i].im))
            /\ A21[i] = MinusIK(kExt, Cx(TrigDen * ffp_y[2][i].re, TrigDen * ffp_y[2][i].im))

\* C1 witness: the amplitude cell has run on far fields whose z components are
\* non-zero, with real and imaginary part, at some direction.
C1_Witness ==
    /\ AmplitudeDone
    /\ \E i \in Idx :
          /\ ffp_z[2][i].re # 0 /\ ffp_z[2][i].im # 0
          /\ ffp_y[2][i].re # 0 /\ ffp_y[2][i].im # 0
          /\ A22[i] # Zero /\ A21[i] # Zero

\* C2: once the amplitude cell has run, for every direction i,
\* A12[i] = -i*k*(-sin(theta_i) F_z[i].x + cos(theta_i) F_z[i].y) and
\* A11[i] = -i*k*(-sin(theta_i) F_y[i].x + cos(theta_i) F_y[i].y),
\* with the angle of the same index i.
C2_AmplitudeInPlane ==
    AmplitudeDone =>
        \A i \in Idx :
            LET s == Sin(theta[i])
                c == Cos(theta[i])
            IN  /\ A12[i] = MinusIK(kExt,
                              Cx(c * ffp_z[1][i].re - s * ffp_z[0][i].re,
                                 c * ffp_z[1][i].im - s * ffp_z[0][i].im))
                /\ A11[i] = MinusIK(kExt,
                              Cx(c * ffp_y[1][i].re - s * ffp_y[0][i].re,
                                 c * ffp_y[1][i].im - s * ffp_y[0][i].im))

\* C2 witness: the amplitude cell has run on a grid with a direction where sine
\* and cosine are both non-zero and the in-plane far-field components of both
\* polarizations are non-zero and differ between the polarizations.
C2_Witness ==
    /\ AmplitudeDone
    /\ \E i \in Idx :
          /\ Sin(theta[i]) # 0 /\ Cos(theta[i]) # 0
          /\ ffp_z[0][i] # Zero /\ ffp_z[1][i] # Zero
          /\ ffp_y[0][i] # Zero /\ ffp_y[1][i] # Zero
          /\ A12[i] # A11[i]

\* C3: once the phase cell has run, for every direction i the four
\* squared-modulus entries are (in units of 1/(2 TrigDen^2), i.e. twice the value)
\* S11 = |A11|^2+|A22|^2+|A21|^2+|A12|^2, S12 = |A11|^2-|A22|^2+|A21|^2-|A12|^2,
\* S21 = |A11|^2-|A22|^2-|A21|^2+|A12|^2, S22 = |A11|^2+|A22|^2-|A21|^2-|A12|^2.
C3_PhaseSquaredModulus ==
    PhaseDone =>
        \A i \in Idx :
            LET m11 == Mod2(A11[i])
                m12 == Mod2(A12[i])
                m21 == Mod2(A21[i])
                m22 == Mod2(A22[i])
            IN  /\ S11[i] = m11 + m22 + m21 + m12
                /\ S12[i] = m11 - m22 + m21 - m12
                /\ S21[i] = m11 - m22 - m21 + m12
                /\ S22[i] = m11 + m22 - m21 - m12

\* C3 witness: the phase cell has run and at some direction the four moduli are
\* non-zero and pairwise different, so the four entries differ.
C3_Witness ==
    /\ PhaseDone
    /\ \E i \in Idx :
          /\ Cardinality({0, Mod2(A11[i]), Mod2(A12[i]), Mod2(A21[i]), Mod2(A22[i])}) = 5
          /\ Cardinality({S11[i], S12[i], S21[i], S22[i]}) = 4

\* C4: once the phase cell has run, for every direction i (twice the value)
\* S13 = Re(A11 A12* + A22 A21*), S14 = Im(A11 A12* - A22 A21*),
\* S23 = Re(A11 A12* - A22 A21*), S24 = Im(A11 A12* + A22 A21*),
\* S31 = Re(A11 A21* + A22 A12*), S32 = Re(A11 A21* - A22 A12*),
\* S41 = Im(A11* A21 + A12* A22), S42 = Im(A11* A21 - A12* A22).
C4_PhaseOffDiagonalBlocks ==
    PhaseDone =>
        \A i \in Idx :
            LET a11 == A11[i]
                a12 == A12[i]
                a21 == A21[i]
                a22 == A22[i]
            IN  /\ S13[i] = 2 * (ReConj(a11, a12) + ReConj(a22, a21))
                /\ S14[i] = 2 * (ImConj(a11, a12) - ImConj(a22, a21))
                /\ S23[i] = 2 * (ReConj(a11, a12) - ReConj(a22, a21))
                /\ S24[i] = 2 * (ImConj(a11, a12) + ImConj(a22, a21))
                /\ S31[i] = 2 * (ReConj(a11, a21) + ReConj(a22, a12))
                /\ S32[i] = 2 * (ReConj(a11, a21) - ReConj(a22, a12))
                /\ S41[i] = 2 * (ImConj(a21, a11) + ImConj(a22, a12))
                /\ S42[i] = 2 * (ImConj(a21, a11) - ImConj(a22, a12))

\* C4 witness: the phase cell has run and at some direction the eight entries
\* are non-zero and pairwise different.
C4_Witness ==
    /\ PhaseDone
    /\ \E i \in Idx :
          Cardinality({0, S13[i], S14[i], S23[i], S24[i],
                       S31[i], S32[i], S41[i], S42[i]}) = 9

\* C5: once the phase cell has run, for every direction i (twice the value)
\* S33 = Re(A11* A22 + A12 A21*), S34 = Im(A11 A22* + A21 A12*),
\* S43 = Im(A22 A11* - A12 A21*), S44 = Re(A11* A22 - A12 A21*).
C5_PhaseLowerRightBlock ==
    PhaseDone =>
        \A i \in Idx :
            LET a11 == A11[i]
                a12 == A12[i]
                a21 == A21[i]
                a22 == A22[i]
            IN  /\ S33[i] = 2 * (ReConj(a22, a11) + ReConj(a12, a21))
                /\ S34[i] = 2 * (ImConj(a11, a22) + ImConj(a21, a12))
                /\ S43[i] = 2 * (ImConj(a22, a11) - ImConj(a12, a21))
                /\ S44[i] = 2 * (ReConj(a22, a11) - ReConj(a12, a21))

\* C5 witness: the phase cell has run and at some direction the four entries
\* are non-zero and pairwise different in modulus.
C5_Witness ==
    /\ PhaseDone
    /\ \E i \in Idx :
          Cardinality({0, S33[i], 0 - S33[i], S34[i], 0 - S34[i],
                       S43[i], 0 - S43[i], S44[i], 0 - S44[i]}) = 9

\* C6: for every number N >= 1 of far-field directions (columns of ffp_z and
\* ffp_y), the four amplitude sequences have length exactly N once the
\* amplitude cell has run, and the sixteen phase sequences have length exactly N
\* once the phase cell has run.
C6_LengthInvariant ==
    LET N == NumCols(ffp_z)
    IN  /\ AmplitudeDone =>
              /\ N >= 1
              /\ NumCols(ffp_y) = N
              /\ \A a \in {A11, A12, A21, A22} : DOMAIN a = 1..N
        /\ PhaseDone =>
              \A e \in {S11, S12, S13, S14, S21, S22, S23, S24,
                        S31, S32, S33, S34, S41, S42, S43, S44} :
                  DOMAIN e = 1..N

\* C6 witness: both cells have run on three directions.
C6_Witness ==
    /\ PhaseDone
    /\ NumCols(ffp_z) = 3
    /\ DOMAIN A21 = 1..3
    /\ DOMAIN S44 = 1..3

AbsInt(x) == IF x >= 0 THEN x ELSE 0 - x

AllAmplitudesNonZero(i) ==
    /\ A11[i] # Zero /\ A12[i] # Zero /\ A21[i] # Zero /\ A22[i] # Zero

\* C7: once the phase cell has run, S11[i] >= 0 at every direction i, for every
\* value of the four amplitude entries.
C7_S11NonNegative ==
    PhaseDone => \A i \in Idx : S11[i] >= 0

\* C7 witness: the phase cell has run on four non-zero amplitude entries whose
\* moduli are not all equal, and S11 is positive.
C7_Witness ==
    /\ PhaseDone
    /\ AllAmplitudesNonZero(1)
    /\ Mod2(A22[1]) > Mod2(A11[1])
    /\ S11[1] > 0

\* C8: once the phase cell has run, S11[i] >= |S12[i]| and S11[i] >= |S21[i]|
\* at every direction i, for every value of the four amplitude entries.
C8_S11BoundsS12S21 ==
    PhaseDone =>
        \A i \in Idx :
            /\ S11[i] >= AbsInt(S12[i])
            /\ S11[i] >= AbsInt(S21[i])

\* C8 witness: the phase cell has run on non-zero amplitude entries with S12
\* negative, S21 positive and both smaller in modulus than S11.
C8_Witness ==
    /\ PhaseDone
    /\ AllAmplitudesNonZero(1)
    /\ S12[1] < 0
    /\ S21[1] > 0
    /\ S11[1] > AbsInt(S12[1])
    /\ S11[1] > S21[1]

\* The inputs of the round-trip scenario: k = 5, F_z[i] = (0,0,1), F_y[i] = (0,1,0).
RoundTripInputs ==
    /\ kExt = 5
    /\ \A i \in Idx :
          /\ ffp_z[0][i] = Zero /\ ffp_z[1][i] = Zero /\ ffp_z[2][i] = Cx(1, 0)
          /\ ffp_y[0][i] = Zero /\ ffp_y[1][i] = Cx(1, 0) /\ ffp_y[2][i] = Zero

\* C9: on the round-trip inputs the amplitude cell gives, at every direction i,
\* A22[i] = -5i, A11[i] = -5i cos(theta_i), A12[i] = 0, A21[i] = 0, and the phase
\* cell then gives S11[i] = 1/2 (25 cos^2(theta_i) + 25): 25 at theta = 0 and
\* 12.5 at theta = pi/2 (S11 is kept as twice its value, in units of 1/TrigDen^2).
C9_RoundTrip ==
    (AmplitudeDone /\ RoundTripInputs) =>
        \A i \in Idx :
            /\ A22[i] = Cx(0, 0 - 5 * TrigDen)
            /\ A11[i] = Cx(0, 0 - 5 * Cos(theta[i]))
            /\ A12[i] = Zero
            /\ A21[i] = Zero
            /\ PhaseDone =>
                  /\ S11[i] = 25 * Cos(theta[i]) * Cos(theta[i]) + 25 * TrigDen * TrigDen
                  /\ theta[i].n = 0 => S11[i] = 2 * 25 * TrigDen * TrigDen
                  /\ 4 * theta[i].n = theta[i].d => S11[i] = 25 * TrigDen * TrigDen

\* C9 witness: both cells have run on the round-trip inputs on a grid that
\* holds theta = 0 and theta = pi/2.
C9_Witness ==
    /\ PhaseDone
    /\ RoundTripInputs
    /\ \E i \in Idx : theta[i].n = 0 /\ S11[i] = 2 * 25 * TrigDen * TrigDen
    /\ \E i \in Idx : 4 * theta[i].n = theta[i].d /\ S11[i] = 25 * TrigDen * TrigDen

\* C10: executing the amplitude cell again, with k, the angles and the two far
\* fields as they are, gives the same A11, A12, A21, A22 as the execution
\* before, whatever else the session holds (position, phase entries, count).
C10_RerunSameAmplitudes ==
    [][RerunAmplitudeCell => amp' = amp]_vars

\* C10 witness: the amplitude cell has been executed twice, the second time
\* after the phase cell, on far fields that give non-zero amplitudes.
C10_Witness ==
    /\ PhaseDone
    /\ runs = 2
    /\ \E i \in Idx : AllAmplitudesNonZero(i)

(***************************************************************************)
(* Independence of the directions, frame and order of the cells.           *)
(***************************************************************************)
\* The 3 x N array f with column j replaced by the vector v.
ReplaceColumn(f, j, v) == [r \in 0..2 |-> [f[r] EXCEPT ![j] = v[r]]]

\* Inputs of one direction that no run of the model produces: an angle
\* outside every grid and far-field vectors outside the samples.
OtherInputs ==
    { [a |-> [n |-> 1, d |-> 16],
       z |-> Vec(Cx(3, 1), Cx(1, -2), Cx(2, 3)),
       y |-> Vec(Cx(-1, 3), Cx(3, 2), Cx(1, -3))] }

\* The inputs of the state with those of direction j replaced by o.
Perturbed(j, o) ==
    [th |-> [theta EXCEPT ![j] = o.a],
     fz |-> ReplaceColumn(ffp_z, j, o.z),
     fy |-> ReplaceColumn(ffp_y, j, o.y)]

\* The phase cell of the dense notebook has just run: the inputs and the
\* twenty arrays are those every later cell finds.
PhaseJustDone == notebook = "dense" /\ pc = "mie"

\* The amplitude arrays on the inputs in, in the order of amp.
AmplitudesOn(in) ==
    <<A11Of(kExt, in.th, in.fy), A12Of(kExt, in.th, in.fz),
      A21Of(kExt, in.fy), A22Of(kExt, in.fz)>>

\* The phase arrays on the amplitude arrays a, in the order of phase.
PhasesOn(a) ==
    <<S11Of(a[1], a[2], a[3], a[4]), S12Of(a[1], a[2], a[3], a[4]),
      S13Of(a[1], a[2], a[3], a[4]), S14Of(a[1], a[2], a[3], a[4]),
      S21Of(a[1], a[2], a[3], a[4]), S22Of(a[1], a[2], a[3], a[4]),
      S23Of(a[1], a[2], a[3], a[4]), S24Of(a[1], a[2], a[3], a[4]),
      S31Of(a[1], a[2], a[3], a[4]), S32Of(a[1], a[2], a[3], a[4]),
      S33Of(a[1], a[2], a[3], a[4]), S34Of(a[1], a[2], a[3], a[4]),
      S41Of(a[1], a[2], a[3], a[4]), S42Of(a[1], a[2], a[3], a[4]),
      S43Of(a[1], a[2], a[3], a[4]), S44Of(a[1], a[2], a[3], a[4])>>

\* Entry i of every array of the tuple t.
EntriesAt(t, i) == [k \in DOMAIN t |-> t[k][i]]

\* C11: when the amplitude and phase cells have run, replacing the inputs of
\* one direction j (its far-field vectors and its angle) by others and
\* computing the twenty arrays again gives, at every direction i other than
\* j, the entries the notebook holds.
C11_NoCrossIndexDependence ==
    PhaseJustDone =>
        \A j \in Idx, o \in OtherInputs :
            LET am == AmplitudesOn(Perturbed(j, o))
                ph == PhasesOn(am)
            IN  \A i \in Idx \ {j} :
                    /\ EntriesAt(am, i) = EntriesAt(amp, i)
                    /\ EntriesAt(ph, i) = EntriesAt(phase, i)

\* C11 witness: three directions or more, and a replacement at one of them
\* that changes all four amplitude entries and S11 there.
C11_Witness ==
    /\ PhaseJustDone
    /\ Len(theta) >= 3
    /\ \E j \in Idx, o \in OtherInputs :
            LET am == AmplitudesOn(Perturbed(j, o))
                ph == PhasesOn(am)
            IN  /\ \A k \in 1..4 : am[k][j] # amp[k][j]
                /\ ph[1][j] # S11[j]

\* The step executes the cell at position c: the notebook moves on, or the
\* cell raises, or it is the amplitude cell, which counts its executions.
Executes(c) == pc = c /\ (pc' # pc \/ error' # error \/ runs' # runs)

\* The arrays of the notebook.
arrays == <<theta, points, ffp_z, ffp_y, s1, s2, P11Mie>> \o amp \o phase

\* C12: the amplitude cell leaves kExt, theta, ffp_z and ffp_y as they are,
\* the phase cell leaves A11, A12, A21, A22 as they are, and no cell changes
\* an array that has been assigned.
C12_NoMutationOfInputs ==
    [][/\ Executes("amplitude") => UNCHANGED <<kExt, theta, ffp_z, ffp_y>>
       /\ Executes("phase") => UNCHANGED amp
       /\ \A k \in DOMAIN arrays :
              arrays[k] # << >> => arrays'[k] = arrays[k]]_vars

\* C12 witness: every cell has run, on far fields that give four non-zero
\* amplitude entries at some direction.
C12_Witness ==
    /\ pc = "done"
    /\ \E i \in Idx : AllAmplitudesNonZero(i)

\* The name x has been assigned.
Produced(x) == x # << >>

\* C13: in a run of either notebook, a step that assigns an amplitude array
\* starts from a state that holds the angles and both far fields, a step that
\* assigns a phase array starts from a state that holds all four amplitude
\* arrays, and the far-field, amplitude and plot cells find the names they
\* read.
C13_PipelineOrdering ==
    [][/\ amp' # amp =>
              Produced(theta) /\ Produced(ffp_z) /\ Produced(ffp_y)
       /\ phase' # phase =>
              \A k \in DOMAIN amp : Produced(amp[k])
       /\ Executes("farfield") => Produced(points)
       /\ Executes("amplitude") =>
              Produced(theta) /\ Produced(ffp_z) /\ Produced(ffp_y)
       /\ Executes("phase") => \A k \in DOMAIN amp : Produced(amp[k])
       /\ Executes("plot") =>
              \A x \in {theta, s1, s2, A11, A22} : Produced(x)]_vars

\* C13 witness: the GMRES notebook has run its far-field, amplitude and
\* phase cells on a grid of two directions or more.
C13_Witness ==
    /\ notebook = "gmres"
    /\ PhaseDone
    /\ Len(S44) >= 2
    /\ \A k \in DOMAIN amp : Produced(amp[k])

(***************************************************************************)
(* Failures of the steps before the builders.                              *)
(***************************************************************************)
\* The far-field cell has run.
FarFieldDone == pc \in {"amplitude", "phase", "mie", "plot", "done"}

\* C17, as stated: when the GMRES notebook has computed the far field from
\* the solutions of the two solves, the status info of the solve is 0: a
\* solve that did not converge has been detected and has stopped the run.
\* The GMRES notebook does not satisfy it.
C17_SolveStatusExamined ==
    (notebook = "gmres" /\ FarFieldDone) => (info = 0 /\ error = "none")

(***************************************************************************)
(* Comparison with the Mie series.                                         *)
(***************************************************************************)
\* The Mie cell has run.
MieDone == pc \in {"plot", "done"}

\* The plot cell has drawn its curves.
PlotDone == pc = "done"

\* |a[1]|^2, ..., |a[n]|^2
Mod2Upto(a, n) == [k \in 1..n |-> Mod2(a[k])]

\* C18: when the plot cell has drawn, the first axis holds |s2|^2 and
\* |A11|^2 and the second |s1|^2 and |A22|^2; the two curves of an axis have
\* the same abscissae theta[k], and point k of the Mie curve is entry k of
\* the Mie array and point k of the BEM curve entry k of the BEM array.
C18_MiePairing ==
    PlotDone =>
        /\ Len(ax1) = 2 /\ Len(ax2) = 2
        /\ \A c \in {ax1[1], ax1[2], ax2[1], ax2[2]} :
               /\ Len(c.x) = Len(c.y)
               /\ Len(c.x) = Len(ax1[1].x)
               /\ \A k \in DOMAIN c.x : c.x[k] = theta[k]
        /\ \A k \in DOMAIN ax1[1].x :
               /\ ax1[1].y[k] = Mod2(s2[k])
               /\ ax1[2].y[k] = Mod2(A11[k])
               /\ ax2[1].y[k] = Mod2(s1[k])
               /\ ax2[2].y[k] = Mod2(A22[k])

\* C18 witness: curves have been drawn from Mie arrays that differ in modulus
\* at some position and BEM arrays that differ in modulus at that position.
C18_Witness ==
    /\ PlotDone
    /\ \E k \in DOMAIN ax1[1].x :
          /\ Mod2(s1[k]) # Mod2(s2[k])
          /\ Mod2(A11[k]) # Mod2(A22[k])

\* The axes of the figure.
Axes == {ax1, ax2}

\* The BEM curves of the figure differ, so that each shows which of A11 and
\* A22 it was drawn from.
BemCurvesDiffer == ax1[2].y # ax2[2].y

\* C19, as stated: the axis that shows |A22|^2 shows |s2|^2 with it, and the
\* axis that shows |A11|^2 shows |s1|^2 with it.  The notebooks do not
\* satisfy it.
C19_AsStated ==
    (PlotDone /\ BemCurvesDiffer) =>
        \A ax \in Axes :
            LET n == Len(ax[2].y)
            IN  /\ ax[2].y = Mod2Upto(A22, n) => ax[1].y = Mod2Upto(s2, n)
                /\ ax[2].y = Mod2Upto(A11, n) => ax[1].y = Mod2Upto(s1, n)

\* C19, amended: the axis that shows |A22|^2 shows |s1|^2 with it, and the
\* axis that shows |A11|^2 shows |s2|^2 with it, on the same abscissae; on
\* the grid of the notebooks these abscissae lie in [0, pi] (at most half a
\* turn).
C19_MieRelationship ==
    (PlotDone /\ BemCurvesDiffer) =>
        \A ax \in Axes :
            LET n == Len(ax[2].y)
            IN  /\ ax[2].y = Mod2Upto(A22, n) => ax[1].y = Mod2Upto(s1, n)
                /\ ax[2].y = Mod2Upto(A11, n) => ax[1].y = Mod2Upto(s2, n)
                /\ ax[1].x = ax[2].x
                /\ Len(theta) = GridPoints =>
                       \A k \in DOMAIN ax[1].x :
                           2 * ax[1].x[k].n <= ax[1].x[k].d

\* C19 witness: the figure of a run on the grid of the notebooks, with
\* |s1|^2 and |s2|^2 different at every position.
C19_Witness ==
    /\ PlotDone
    /\ Len(theta) = GridPoints
    /\ BemCurvesDiffer
    /\ \A k \in DOMAIN s1 : Mod2(s1[k]) # Mod2(s2[k])
    /\ \E ax \in Axes : ax[2].y = Mod2Upto(A22, Len(ax[2].y))

\* C20, as stated: s1 and s2 have as many entries as angles were asked for,
\* and the BEM curves drawn with them have that many points.  The notebooks
\* do not satisfy it.
C20_AsStated ==
    /\ MieDone => Len(s1) = numAngles /\ Len(s2) = numAngles
    /\ PlotDone => \A ax \in Axes : Len(ax[2].y) = numAngles

\* C20, amended: for numAngles angles asked for, s1 and s2 have
\* 2 * numAngles - 1 entries (1801 for 901), and the BEM curves drawn with
\* them are the first 2 * numAngles - 1 entries of A11 and A22 (the slice
\* [:1801]).
C20_MieReferenceLength ==
    /\ MieDone =>
          /\ numAngles = NumAnglesValue
          /\ Len(s1) = 2 * numAngles - 1
          /\ Len(s2) = 2 * numAngles - 1
    /\ PlotDone =>
          /\ ThetaSlice = 2 * numAngles - 1
          /\ \A ax \in Axes :
                 /\ Len(ax[1].y) = 2 * numAngles - 1
                 /\ Len(ax[2].y) = 2 * numAngles - 1
          /\ ax1[2].y = Mod2Upto(A11, 2 * numAngles - 1)
          /\ ax2[2].y = Mod2Upto(A22, 2 * numAngles - 1)

\* C20 witness: on the grid of the notebooks the figure holds Mie curves of
\* 2 * numAngles - 1 points, which is more than numAngles.
C20_Witness ==
    /\ PlotDone
    /\ Len(theta) = GridPoints
    /\ Len(ax1[1].y) = 2 * numAngles - 1
    /\ Len(ax1[1].y) > numAngles

\* The angles a and b, fractions of a turn, are equal.
SameAngle(a, b) == a.n * b.d = b.n * a.d

\* The plot cell has been executed: it has drawn, or it has raised.
PlotExecuted == pc = "done" \/ (pc = "plot" /\ error # "none")

\* The BEM directions that are compared, theta[:1801], are the angles of the
\* Mie arrays, one for one.
CompatibleGrids ==
    /\ Len(Slice(theta, ThetaSlice)) = Len(s1)
    /\ Len(s1) = Len(s2)
    /\ \A k \in DOMAIN s1 : SameAngle(theta[k], MieAngle(k, Len(s1)))

C16_NotebookGridCompatible ==
    (MieDone /\ Len(theta) = GridPoints) => CompatibleGrids

(***************************************************************************)
(* Inputs the builders are not meant for.                                  *)
(***************************************************************************)
\* The angles and the two far fields do not all have the same length.
ShapeMismatch ==
    \/ NumCols(ffp_z) # NumCols(ffp_y)
    \/ Len(theta) # NumCols(ffp_z)
    \/ Len(theta) # NumCols(ffp_y)

\* The amplitude cell has been executed: it has finished, or it has raised.
AmplitudeExecuted == runs >= 1

C14_WhatTheCellDoes ==
    (AmplitudeExecuted /\ ShapeMismatch) =>
        /\ Produced(A22)
        /\ error \in {"none", "ValueError"}
        /\ (error = "ValueError" /\ pc = "amplitude") => ~Produced(A21)
        /\ (error = "none" /\ pc = "phase") =>
               \A k \in DOMAIN amp : Produced(amp[k])

NonFiniteAt(i) ==
    \E r \in 0..2 : IsNaN(ffp_z[r][i]) \/ IsNaN(ffp_y[r][i])

\* A printed line that names direction i as non-finite.
ReportedAt(i) ==
    \E k \in DOMAIN printed :
        printed[k].msg = "non-finite" /\ printed[k].arg = i

\* C15, as stated: when the amplitude and phase cells have run on far fields
\* with a non-finite component, no exception has been raised, all twenty
\* arrays have N entries, and for every direction with a non-finite
\* component a printed line names it.  The notebooks do not satisfy it.
C15_NonFiniteReported ==
    (PhaseDone /\ \E i \in Idx : NonFiniteAt(i)) =>
        /\ error = "none"
        /\ \A k \in DOMAIN amp : Len(amp[k]) = Len(theta)
        /\ \A k \in DOMAIN phase : Len(phase[k]) = Len(theta)
        /\ \A i \in Idx : NonFiniteAt(i) => ReportedAt(i)

\* The part of C15 the notebooks satisfy: the cells raise nothing and give
\* N entries each, the sixteen phase entries of the direction are
\* non-finite, and those of the other directions are not.
C15_ContinuesOnNonFinite ==
    (PhaseDone /\ \E i \in Idx : NonFiniteAt(i)) =>
        /\ error \in {"none", "ValueError"}
        /\ pc # "plot" => error = "none"
        /\ \A k \in DOMAIN amp : Len(amp[k]) = Len(theta)
        /\ \A k \in DOMAIN phase :
               /\ Len(phase[k]) = Len(theta)
               /\ \A i \in Idx :
                      IF NonFiniteAt(i) THEN phase[k][i] = NaN
                      ELSE phase[k][i] \in Int

\* The only line a non-finite value makes the notebook print names no
\* direction: the warning of the logarithmic scale of the figure.
C15_WarningWitness ==
    /\ pc = "done"
    /\ Len(theta) = GridPoints
    /\ \E i \in Idx : NonFiniteAt(i) /\ ~ReportedAt(i)
    /\ \E k \in DOMAIN printed : printed[k].msg = "RuntimeWarning"

(***************************************************************************)
(* The angle grid.                                                         *)
(***************************************************************************)
\* Column i of the 3 x N array f.
Column(f, i) == <<f[0][i], f[1][i], f[2][i]>>

\* The angle a is p / q of a turn.
IsTurnFraction(a, p, q) == a.d > 0 /\ a.n * q = p * a.d

\* C21: once the grid cell has run with N > 1 directions, theta_i is
\* i / (N - 1) of a turn (i * 2*pi / (N - 1)) for i = 0..N-1, the direction
\* at index i is (cos theta_i, sin theta_i, 0), in the order of the angles,
\* and the first direction is (1, 0, 0).  (Index i is position i + 1 here.)
C21_AngleGridFormula ==
    (Produced(theta) /\ Len(theta) > 1) =>
        LET N == Len(theta)
        IN  /\ \A r \in 0..2 : Len(points[r]) = N
            /\ \A i \in 0..(N - 1) :
                   /\ IsTurnFraction(theta[i + 1], i, N - 1)
                   /\ Column(points, i + 1) =
                          <<Cos([n |-> i, d |-> N - 1]),
                            Sin([n |-> i, d |-> N - 1]), 0>>
            /\ Column(points, 1) = <<TrigDen, 0, 0>>

\* The grid of the notebooks has been built, and its second direction, a
\* quarter turn, is (0, 1, 0).
C21_Witness ==
    /\ Produced(theta)
    /\ Len(theta) = GridPoints
    /\ IsTurnFraction(theta[2], 1, 4)
    /\ Column(points, 2) = <<0, TrigDen, 0>>

\* C22, as stated: every angle is in [0, 2*pi) and the directions are
\* pairwise distinct.  The notebooks do not satisfy it.
C22_AsStated ==
    Produced(theta) =>
        /\ \A i \in DOMAIN theta :
               0 <= theta[i].n /\ theta[i].n < theta[i].d
        /\ \A i, j \in DOMAIN theta :
               i # j => Column(points, i) # Column(points, j)

\* C22, as the notebooks have it: the angles are in the closed interval
\* [0, 2*pi], in strictly increasing order from 0; with N > 1 angles the last
\* one is 2*pi and its direction is the first direction again, and the
\* directions before the last are pairwise distinct.
C22_ClosedAngleRange ==
    Produced(theta) =>
        LET N == Len(theta)
        IN  /\ \A i \in DOMAIN theta :
                   /\ theta[i].d > 0
                   /\ 0 <= theta[i].n /\ theta[i].n <= theta[i].d
            /\ theta[1].n = 0
            /\ \A i \in 1..(N - 1) :
                   theta[i].n * theta[i + 1].d < theta[i + 1].n * theta[i].d
            /\ N > 1 => /\ theta[N].n = theta[N].d
                        /\ Column(points, N) = Column(points, 1)
            /\ \A i, j \in 1..(N - 1) :
                   i # j => Column(points, i) # Column(points, j)

\* The grid of the notebooks: the last angle is a full turn, and the last
\* direction is the first one.
C22_Witness ==
    /\ Produced(theta)
    /\ Len(theta) = GridPoints
    /\ theta[GridPoints].n = theta[GridPoints].d
    /\ Column(points, GridPoints) = Column(points, 1)

\* C23: once the plot cell has drawn on the grid of the notebooks, of
\* GridPoints directions (3601), the abscissae of every curve are the first
\* ThetaSlice = (GridPoints - 1) / 2 + 1 angles (1801), from 0 at index 0 to
\* pi at the last index; the BEM curve has |A[j]|^2 and the Mie curve
\* |s[j]|^2 at the same index j, whose BEM angle and Mie angle are both
\* j * pi / (ThetaSlice - 1).  (Index j is position j + 1 here.)
C23_SubrangeAlignment ==
    (PlotDone /\ Len(theta) = GridPoints) =>
        /\ ThetaSlice = (GridPoints - 1) \div 2 + 1
        /\ \A ax \in Axes : \A c \in 1..2 :
               /\ Len(ax[c].x) = ThetaSlice
               /\ Len(ax[c].y) = ThetaSlice
               /\ ax[c].x[1].n = 0
               /\ IsTurnFraction(ax[c].x[ThetaSlice], 1, 2)
               /\ \A j \in 0..(ThetaSlice - 1) :
                      /\ ax[c].x[j + 1] = theta[j + 1]
                      /\ IsTurnFraction(ax[c].x[j + 1], j, 2 * (ThetaSlice - 1))
                      /\ SameAngle(ax[c].x[j + 1], MieAngle(j + 1, Len(s1)))
        /\ \A j \in 1..ThetaSlice :
               /\ ax1[1].y[j] = Mod2(s2[j]) /\ ax1[2].y[j] = Mod2(A11[j])
               /\ ax2[1].y[j] = Mod2(s1[j]) /\ ax2[2].y[j] = Mod2(A22[j])

\* The plot cell has drawn on the grid of the notebooks, and the last
\* compared angle is half a turn, with a non-zero BEM ordinate there.
C23_Witness ==
    /\ PlotDone
    /\ Len(theta) = GridPoints
    /\ IsTurnFraction(ax1[2].x[ThetaSlice], 1, 2)
    /\ ax1[2].y[ThetaSlice] > 0

(***************************************************************************)
(* Algebra of the sixteen phase formulas.                                  *)
(***************************************************************************)
\* Positions of the entries in the tuple phase.
PhaseEntries == 1..16

\* C26: once the phase cell has run, each of the sixteen entries satisfies
\* |Sjk[i]| <= S11[i] at every direction i, for every value of the four
\* amplitude entries.
C26_EveryEntryBounded ==
    PhaseDone =>
        \A i \in Idx : \A e \in PhaseEntries :
            AbsInt(phase[e][i]) <= S11[i]

\* The phase cell has run on four non-zero amplitude entries, with an entry
\* of each off-diagonal block and of the lower right block not zero and
\* smaller in modulus than S11, and S22 negative.
C26_Witness ==
    /\ PhaseDone
    /\ AllAmplitudesNonZero(1)
    /\ S13[1] # 0 /\ S31[1] # 0 /\ S44[1] # 0
    /\ AbsInt(S13[1]) < S11[1]
    /\ AbsInt(S44[1]) < S11[1]
    /\ S22[1] < 0

\* With one direction at theta = 0 the amplitude entries are multiples of
\* kExt * TrigDen and the phase entries multiples of its square; the squares
\* of the entries are taken in that unit to stay within the integers of the
\* model checker.
PhaseUnit == kExt * kExt * TrigDen * TrigDen

InPhaseUnits(x) == x \div PhaseUnit

\* The sum of the squares of the sixteen entries at direction i.
RECURSIVE SumOfSquares(_, _)
SumOfSquares(e, i) ==
    IF e = 0 THEN 0
    ELSE InPhaseUnits(phase[e][i]) * InPhaseUnits(phase[e][i])
            + SumOfSquares(e - 1, i)

\* C27: once the phase cell has run, the sum over j, k of Sjk[i]^2 is
\* 4 * S11[i]^2 at every direction i, for every value of the four amplitude
\* entries (every entry being a whole number of phase units).
C27_TraceIdentity ==
    PhaseDone =>
        \A i \in Idx :
            /\ \A e \in PhaseEntries : phase[e][i] % PhaseUnit = 0
            /\ SumOfSquares(16, i) =
                   4 * InPhaseUnits(S11[i]) * InPhaseUnits(S11[i])

\* The phase cell has run on four non-zero amplitude entries with the
\* entries of the first row all different from zero.
C27_Witness ==
    /\ PhaseDone
    /\ AllAmplitudesNonZero(1)
    /\ S11[1] > 0 /\ S12[1] # 0 /\ S13[1] # 0 /\ S14[1] # 0
    /\ SumOfSquares(16, 1) > InPhaseUnits(S11[1]) * InPhaseUnits(S11[1])

\* C28: once the phase cell has run, at every direction i with A12[i] = 0 and
\* A21[i] = 0 the eight entries of the off-diagonal blocks are zero,
\* S22 = S11 = 1/2 (|A11|^2 + |A22|^2), S21 = S12, S44 = S33 and S43 = -S34.
\* (The entries are kept as twice their value.)
C28_SphereStructure ==
    PhaseDone =>
        \A i \in Idx :
            (A12[i] = Zero /\ A21[i] = Zero) =>
                /\ S13[i] = 0 /\ S14[i] = 0 /\ S23[i] = 0 /\ S24[i] = 0
                /\ S31[i] = 0 /\ S32[i] = 0 /\ S41[i] = 0 /\ S42[i] = 0
                /\ S11[i] = Mod2(A11[i]) + Mod2(A22[i])
                /\ S22[i] = S11[i]
                /\ S21[i] = S12[i]
                /\ S44[i] = S33[i]
                /\ S43[i] = 0 - S34[i]

\* The phase cell has run on A12 = A21 = 0 with A11 and A22 of different
\* moduli and phases: S12, S33 and S34 are not zero.
C28_Witness ==
    /\ PhaseDone
    /\ A12[1] = Zero /\ A21[1] = Zero
    /\ A11[1] # Zero /\ A22[1] # Zero
    /\ S12[1] # 0 /\ S33[1] # 0 /\ S34[1] # 0

\* The array a with every entry multiplied by the complex number c.
ScaleSeq(c, a) == [i \in DOMAIN a |-> CMul(c, a[i])]

\* The tuple of arrays t with every entry multiplied by c.
ScaleAll(c, t) == [e \in DOMAIN t |-> ScaleSeq(c, t[e])]

\* The 3 x N array f with every entry multiplied by c.
ScaleField(c, f) == [r \in 0..2 |-> ScaleSeq(c, f[r])]

\* The unit-modulus numbers i, -1 and -i.
UnitPhases == { Cx(0, 1), Cx(-1, 0), Cx(0, -1) }

\* C29: once the phase cell has run, multiplying the four amplitude arrays by
\* i, -1 or -i and computing the sixteen phase arrays again gives the arrays
\* the notebook holds.
C29_GlobalPhaseInvariance ==
    PhaseDone =>
        \A u \in UnitPhases :
            LET scaled == ScaleAll(u, amp)
            IN  PhasesOn(scaled) = phase

\* The phase cell has run on four non-zero amplitude entries, which the
\* multiplication by i changes, with entries of both kinds (real and
\* imaginary parts) not zero.
C29_Witness ==
    /\ PhaseDone
    /\ AllAmplitudesNonZero(1)
    /\ ScaleAll(Cx(0, 1), amp) # amp
    /\ S33[1] # 0 /\ S34[1] # 0 /\ S14[1] # 0 /\ S42[1] # 0

\* Complex constants and real factors of k of the homogeneity check.
ScaleFactors == { Cx(2, 0), Cx(0, 1), Cx(1, 1), Cx(-1, 2) }

KFactors == { 0, 2, 3 }

\* The entries of the arrays of the tuple t multiplied by the integer r.
TimesAll(r, t) == [e \in DOMAIN t |-> [i \in DOMAIN t[e] |-> r * t[e][i]]]

\* Arrays of zeros of the length of the grid.
ZeroSeq == [i \in Idx |-> Zero]

ZeroField == [r \in 0..2 |-> ZeroSeq]

\* C30: once the phase cell has run, (a) the amplitude arrays computed on
\* c * F_z and c * F_y are c times the arrays the notebook holds, (b) those
\* computed with r * k are r times these arrays, (c) the zero far field gives
\* all-zero amplitude arrays, (d) the phase arrays computed on c times the
\* amplitude arrays are |c|^2 times the arrays the notebook holds, and (e)
\* all-zero amplitude arrays give all-zero phase arrays.
C30_Homogeneity ==
    PhaseDone =>
        /\ \A c \in ScaleFactors :
               LET scaled == ScaleAll(c, amp)
                   in == [th |-> theta, fz |-> ScaleField(c, ffp_z),
                          fy |-> ScaleField(c, ffp_y)]
               IN  /\ AmplitudesOn(in) = scaled
                   /\ PhasesOn(scaled) = TimesAll(Mod2(c), phase)
        /\ \A r \in KFactors :
               <<A11Of(r * kExt, theta, ffp_y), A12Of(r * kExt, theta, ffp_z),
                 A21Of(r * kExt, ffp_y), A22Of(r * kExt, ffp_z)>>
                  = ScaleAll(Cx(r, 0), amp)
        /\ AmplitudesOn([th |-> theta, fz |-> ZeroField, fy |-> ZeroField])
               = [e \in 1..4 |-> ZeroSeq]
        /\ PhasesOn([e \in 1..4 |-> ZeroSeq])
               = [e \in PhaseEntries |-> [i \in Idx |-> 0]]

\* The phase cell has run on four non-zero amplitude entries and a phase
\* matrix with non-zero entries, which the scaling by 1 + i doubles.
C30_Witness ==
    /\ PhaseDone
    /\ AllAmplitudesNonZero(1)
    /\ S13[1] # 0 /\ S34[1] # 0 /\ S44[1] # 0
    /\ PhasesOn(ScaleAll(Cx(1, 1), amp)) # phase

(***************************************************************************)
(* The two polarizations and the two formulations.                         *)
(***************************************************************************)
\* The polarizations of the incident traces in the right-hand side from
\* which the boundary datum f was solved.
PolarizationsOf(f) == { f.of.rhs[b].idOp.pol : b \in DOMAIN f.of.rhs }

\* The boundary data handed to evaluate() for the far field of polarization
\* p are blocks 0 and 1 of the solution lambda, solved from the right-hand
\* side rhs, and hold data of polarization p only.
OnlyFrom(p, args, lambda, rhs) ==
    /\ args = <<Block(lambda, 0), Block(lambda, 1)>>
    /\ lambda.rhs = rhs
    /\ \A b \in DOMAIN args : PolarizationsOf(args[b]) = {p}

\* Far fields to put in the place of the far field f of the state.
OtherFarFields(f) ==
    { [r \in 0..2 |-> [i \in DOMAIN f[r] |-> Zero]],
      [r \in 0..2 |-> [i \in DOMAIN f[r] |-> CAdd(f[r][i], Cx(1, 2))]] }

\* The amplitude cell has just run: the inputs and the four arrays are
\* those every later cell finds.
AmplitudeJustDone == pc = "phase"

\* C24: once the far-field cell has run, ffp_z was evaluated from
\* total_field_dirichlet_z and total_field_neumann_z, which are the blocks
\* of lambda_data_z, solved from rhs_z, and hold z-polarized data only, and
\* ffp_y likewise from the y-polarized data; and once the amplitude cell has
\* run, computing the amplitude arrays again with another y-polarized far
\* field gives the A22 and A12 of the notebook, and with another
\* z-polarized far field the A11 and A21 of the notebook.
C24_PolarizationNonInterference ==
    /\ FarFieldDone =>
           /\ evaluated.z = <<total_field_dirichlet_z, total_field_neumann_z>>
           /\ evaluated.y = <<total_field_dirichlet_y, total_field_neumann_y>>
           /\ OnlyFrom("z", evaluated.z, lambda_data_z, rhs_z)
           /\ OnlyFrom("y", evaluated.y, lambda_data_y, rhs_y)
    /\ AmplitudeJustDone =>
           /\ \A fy \in OtherFarFields(ffp_y) :
                  LET am == AmplitudesOn([th |-> theta, fz |-> ffp_z, fy |-> fy])
                  IN  am[2] = A12 /\ am[4] = A22
           /\ \A fz \in OtherFarFields(ffp_z) :
                  LET am == AmplitudesOn([th |-> theta, fz |-> fz, fy |-> ffp_y])
                  IN  am[1] = A11 /\ am[3] = A21

\* The GMRES notebook has run its amplitude cell on three directions or
\* more, and another y-polarized far field changes A11 and A21, and another
\* z-polarized one A22 and A12, at every direction.
C24_Witness ==
    /\ notebook = "gmres"
    /\ AmplitudeJustDone
    /\ Len(theta) >= 3
    /\ PolarizationsOf(evaluated.z[2]) = {"z"}
    /\ \E fy \in OtherFarFields(ffp_y), fz \in OtherFarFields(ffp_z) :
          LET am == AmplitudesOn([th |-> theta, fz |-> fz, fy |-> fy])
          IN  \A i \in Idx :
                  /\ am[1][i] # A11[i] /\ am[3][i] # A21[i]
                  /\ am[2][i] # A12[i] /\ am[4][i] # A22[i]

\* The assembly cell has run.
AssemblyDone == pc \notin {"params", "assembly"}

\* The right-hand side rhs has block 0 = s0 * idOp * (trace t0) and
\* block 1 = s1 * idOp * (trace t1) of the incident wave of polarization p.
RhsIs(rhs, p, sg0, t0, sg1, t1) ==
    /\ Len(rhs) = 2
    /\ rhs[1] = IdOpTimes(sg0, IncTrace(t0, p))
    /\ rhs[2] = IdOpTimes(sg1, IncTrace(t1, p))

\* C25: in every step of a run, (a) lhsOp, rhs_z and rhs_y are assigned once,
\* together, by the assembly cell; (b) after the step they are unassigned or
\* all those of one formulation, the first one in the dense notebook and the
\* alternative one in the GMRES notebook; (c) the right-hand sides are
\* (Dirichlet trace, Neumann trace) with the first formulation and
\* (minus Neumann trace, Dirichlet trace) with the alternative one; and (d)
\* with either formulation the cells below the solve take block 0 of the
\* solution as the Dirichlet data and block 1 as the Neumann data, hand
\* them to the far-field evaluation, and compute the amplitude arrays by the
\* same formulas.
C25_OneFormulation ==
    [][/\ bie' # bie =>
              /\ Executes("assembly")
              /\ \A x \in {lhsOp, rhs_z, rhs_y} : ~Produced(x)
              /\ \A x \in {lhsOp', rhs_z', rhs_y'} : Produced(x)
       /\ AssemblyDone' =>
              \E f \in {FirstFormulation, AlternativeFormulation} :
                  /\ f = IF notebook' = "dense" THEN FirstFormulation
                                                ELSE AlternativeFormulation
                  /\ lhsOp' = f.lhsOp /\ rhs_z' = f.rhs_z /\ rhs_y' = f.rhs_y
       /\ (AssemblyDone' /\ lhsOp' = FirstFormulation.lhsOp) =>
              /\ RhsIs(rhs_z', "z", 1, "Dirichlet", 1, "Neumann")
              /\ RhsIs(rhs_y', "y", 1, "Dirichlet", 1, "Neumann")
       /\ (AssemblyDone' /\ lhsOp' = AlternativeFormulation.lhsOp) =>
              /\ RhsIs(rhs_z', "z", -1, "Neumann", 1, "Dirichlet")
              /\ RhsIs(rhs_y', "y", -1, "Neumann", 1, "Dirichlet")
       /\ Executes("fields") =>
              /\ total_field_dirichlet_z' = Block(lambda_data_z, 0)
              /\ total_field_neumann_z' = Block(lambda_data_z, 1)
              /\ total_field_dirichlet_y' = Block(lambda_data_y, 0)
              /\ total_field_neumann_y' = Block(lambda_data_y, 1)
       /\ Executes("farfield") => evaluated' = FarFieldArguments
       /\ (Executes("amplitude") /\ error' = "none") =>
              amp' = AmplitudesOn([th |-> theta, fz |-> ffp_z, fy |-> ffp_y])
      ]_vars

\* The GMRES notebook, with the alternative formulation, has solved both
\* systems and taken the boundary data from the solutions, whose right-hand
\* sides begin with the Neumann trace.
C25_Witness ==
    /\ notebook = "gmres"
    /\ pc = "grid"
    /\ lhsOp = AlternativeFormulation.lhsOp
    /\ lhsOp # FirstFormulation.lhsOp
    /\ lambda_data_y.rhs[1].idOp.trace = "Neumann"
    /\ total_field_dirichlet_y = Block(lambda_data_y, 0)

====
